---- MODULE Spec2Model ----
(***************************************************************************)
(* State machine of the PeopleDistributor optimisation core                *)
(* (src/PeopleDistributor/State.cpp): the schedule state with its          *)
(* incrementally maintained co-attendance matrix, the contact-delta        *)
(* evaluator, the swap applier, the hill-climb step and the simulated      *)
(* annealing step.                                                         *)
(*                                                                         *)
(* Conventions.                                                            *)
(*  - C++ vectors are functions over 0..n-1 (the source indexes from 0).   *)
(*  - unsigned int entries of curr_contacts are kept as integer            *)
(*    representatives modulo 2^32: ++ and -- are +1 and -1, and the only   *)
(*    tests the source makes (== 0, == 1) agree on representatives; a      *)
(*    negative representative -k stands for the wrapped value 2^32 - k.    *)
(*  - every value the source takes from xorshift128p is an input of the    *)
(*    action (the seed is the wall clock), drawn over the range the        *)
(*    source's modulus allows.                                             *)
(***************************************************************************)
EXTENDS Integers, Sequences, FiniteSets, TLC

VARIABLES
  pc,                                      \* "constructed" | "aborted" | "initialized" | "undoing" | "thrown" | "crashed"
  number_of_groups,
  number_of_males_per_group,
  number_of_females_per_group,
  number_of_days,
  m_day_group_person,
  f_day_group_person,
  curr_contacts,
  curr_num_contacts,
  m_number_of_immovable_people_per_group,
  f_number_of_immovable_people_per_group,
  log,                                     \* history: the swaps executed and not yet reversed, oldest first
  snap,                                    \* history: schedules, matrix and score as initialize left them
  last,                                    \* history: the last operation and the number of swaps it executed
  drv,                                     \* the driver call in progress (or the last one): control and locals
  param,                                   \* the State parameter of that call: the driver's own copy
  step,                                    \* history: what the last step on param did
  runs                                     \* history: the driver calls made so far

vars == << pc, number_of_groups, number_of_males_per_group, number_of_females_per_group,
           number_of_days, m_day_group_person, f_day_group_person, curr_contacts,
           curr_num_contacts, m_number_of_immovable_people_per_group,
           f_number_of_immovable_people_per_group, log, snap, last,
           drv, param, step, runs >>

driver_vars == << drv, param, step, runs >>

config_vars == << number_of_groups, number_of_males_per_group,
                  number_of_females_per_group, number_of_days >>

imm_vars == << m_number_of_immovable_people_per_group,
               f_number_of_immovable_people_per_group >>

sched_vars == << m_day_group_person, f_day_group_person, curr_contacts, curr_num_contacts >>

(***************************************************************************)
(* Bounds of the model and constants of the program.                       *)
(***************************************************************************)
\* a caller's swap or a step starts only while fewer than MaxLog executed
\* swaps are un-reversed (an annealing step may add two)
MaxLog == 1

\* std::shuffle(males.begin()+6, ...): the hard-coded male offset
MaleShuffleOffset == 6

\* std::shuffle(females.begin()+2, ...): the hard-coded female offset
FemaleShuffleOffset == 2

\* The (G, M, F, D) arguments of initialize that the model enumerates.  In
\* the first the male shuffle has a suffix to permute, in the second the
\* female shuffle has, the third has three groups and two days to swap on,
\* in the fourth (scenario E2 of the specification) the male id vector is
\* shorter than the hard-coded offset, and the last has a single day, on
\* which initialize shuffles nothing.
Configs ==
  { [G |-> 2, M |-> 4, F |-> 1, D |-> 2],
    [G |-> 2, M |-> 3, F |-> 2, D |-> 2],
    [G |-> 3, M |-> 2, F |-> 1, D |-> 3],
    [G |-> 2, M |-> 2, F |-> 0, D |-> 2],
    [G |-> 2, M |-> 2, F |-> 1, D |-> 1] }

Range(n) == 0 .. (n - 1)

EmptyVec == [i \in Range(0) |-> 0]

Size(v) == Cardinality(DOMAIN v)

\* the vectors a caller passes to the immovable setters for a group count
\* G and a per-group head count K: all zero, and one or K immovable in
\* group 0
ImmInputs(G, K) ==
  { [g \in Range(G) |-> 0],
    [g \in Range(G) |-> IF g = 0 THEN 1 ELSE 0],
    [g \in Range(G) |-> IF g = 0 THEN K ELSE 0] }

(***************************************************************************)
(* initialize: the id vectors and the schedule fill.                       *)
(***************************************************************************)
create_male_numbers_vector(total_males) == [i \in Range(total_males) |-> i]

create_female_numbers_vector(total_females, total_males) ==
  [i \in Range(total_females) |-> total_males + i]

SuffixPermutations(S) == { p \in [S -> S] : \A x, y \in S : p[x] = p[y] => x = y }

\* std::shuffle(v.begin() + offset, v.end(), generator): every arrangement
\* of the suffix is a possible outcome, the prefix stays (offset <= size)
ShuffleOutcomes(v, offset) ==
  LET n == Size(v)
      suffix == { i \in Range(n) : i >= offset }
  IN  { [i \in Range(n) |-> IF i < offset THEN v[i] ELSE v[p[i]]] : p \in SuffixPermutations(suffix) }

\* v.begin() + offset lies past v.end(): the shuffle of a day d >= 1 is
\* handed an invalid range, which is undefined; the builds stop there
\* (an out-of-range access while the shuffle walks past the allocation)
ShuffleUndefined(total, offset, D) == D >= 2 /\ offset > total

\* males.erase(males.begin())
Erased(vec) == [i \in Range(Size(vec) - 1) |-> vec[i + 1]]

\* the fill loops with the group loop outside and the person loop inside
RECURSIVE FillLoopGroupOuter(_, _, _, _, _, _)
FillLoopGroupOuter(layer, vec, person, group, G, K) ==
  IF group >= G THEN layer
  ELSE IF person >= K THEN FillLoopGroupOuter(layer, vec, 0, group + 1, G, K)
  ELSE FillLoopGroupOuter([layer EXCEPT ![group][person] = vec[0]], Erased(vec),
                          person + 1, group, G, K)

\* for (person ...) for (group ...) {
\*   m_day_group_person[day][group][person] = males[0];
\*   males.erase(males.begin()); }
RECURSIVE FillLoop(_, _, _, _, _, _)
FillLoop(layer, vec, person, group, G, K) ==
  IF person >= K THEN layer
  ELSE IF group >= G THEN FillLoop(layer, vec, person + 1, 0, G, K)
  ELSE FillLoop([layer EXCEPT ![group][person] = vec[0]], Erased(vec),
                person, group + 1, G, K)

\* one day of a schedule, filled from the id vector vec; the layer starts
\* as initialize allocates it, with 0 in every slot
FillDay(vec, G, K) ==
  FillLoop([g \in Range(G) |-> [s \in Range(K) |-> 0]], vec, 0, 0, G, K)

(***************************************************************************)
(* initialize: the contact pass, loop by loop.  acc = [cc, n] is           *)
(* (curr_contacts, curr_num_contacts) as the loops run.                    *)
(***************************************************************************)
\* TRUE of every accumulator.  TLC hands an operator its arguments
\* unevaluated; a loop that states Evaluated(acc) in its test computes the
\* accumulator before it enters the next iteration.
Evaluated(acc) == acc.n = acc.n

\* curr_contacts[a][b]++
Incremented(cc, a, b) == [cc EXCEPT ![a][b] = @ + 1]

\* SameSexRow without "if (male1 id < male2 id)": a new same-sex contact
\* is counted at both of its ordered visits
RECURSIVE SameSexRowCountsBothOrders(_, _, _, _, _)
SameSexRowCountsBothOrders(acc, grp, a, i2, cnt) ==
  IF i2 >= cnt THEN acc
  ELSE LET b == grp[i2]
       IN  IF acc.cc[a][b] = 0
           THEN SameSexRowCountsBothOrders([cc |-> Incremented(acc.cc, a, b), n |-> acc.n + 1],
                                           grp, a, i2 + 1, cnt)
           ELSE SameSexRowCountsBothOrders([cc |-> Incremented(acc.cc, a, b), n |-> acc.n],
                                           grp, a, i2 + 1, cnt)

\* SameSexRow that passes over the slot of the person itself: the
\* diagonal entry curr_contacts[a][a] is never incremented
RECURSIVE SameSexRowSkipsSelf(_, _, _, _, _)
SameSexRowSkipsSelf(acc, grp, a, i2, cnt) ==
  IF i2 >= cnt THEN acc
  ELSE LET b == grp[i2]
       IN  IF a = b THEN SameSexRowSkipsSelf(acc, grp, a, i2 + 1, cnt)
           ELSE IF acc.cc[a][b] = 0
           THEN SameSexRowSkipsSelf([cc |-> Incremented(acc.cc, a, b),
                                     n  |-> IF a < b THEN acc.n + 1 ELSE acc.n],
                                    grp, a, i2 + 1, cnt)
           ELSE SameSexRowSkipsSelf([cc |-> Incremented(acc.cc, a, b), n |-> acc.n],
                                    grp, a, i2 + 1, cnt)

\* "All the males that see each other" (and, for the females, "All the
\* females that see each other"): for every slot i2 of the group, test
\* curr_contacts[a][b] == 0, increment it, and count the new contact
\* when a < b
RECURSIVE SameSexRow(_, _, _, _, _)
SameSexRow(acc, grp, a, i2, cnt) ==
  IF i2 >= cnt THEN acc
  ELSE LET b == grp[i2]
       IN  IF acc.cc[a][b] = 0
           THEN SameSexRow([cc |-> Incremented(acc.cc, a, b),
                            n  |-> IF a < b THEN acc.n + 1 ELSE acc.n],
                           grp, a, i2 + 1, cnt)
           ELSE SameSexRow([cc |-> Incremented(acc.cc, a, b), n |-> acc.n],
                           grp, a, i2 + 1, cnt)

\* MixedRow without the increment of curr_contacts[female][male]
RECURSIVE MixedRowOneHalf(_, _, _, _, _)
MixedRowOneHalf(acc, fgrp, a, i2, cnt) ==
  IF i2 >= cnt THEN acc
  ELSE LET b == fgrp[i2]
       IN  IF acc.cc[a][b] = 0
           THEN MixedRowOneHalf([cc |-> Incremented(acc.cc, a, b), n |-> acc.n + 1],
                                fgrp, a, i2 + 1, cnt)
           ELSE MixedRowOneHalf([cc |-> Incremented(acc.cc, a, b), n |-> acc.n],
                                fgrp, a, i2 + 1, cnt)

\* "All the females the males see": for every female slot i2 of the
\* group, test curr_contacts[a][b] == 0, increment both halves, and count
\* the new contact
RECURSIVE MixedRow(_, _, _, _, _)
MixedRow(acc, fgrp, a, i2, cnt) ==
  IF i2 >= cnt THEN acc
  ELSE LET b == fgrp[i2]
       IN  IF acc.cc[a][b] = 0
           THEN MixedRow([cc |-> Incremented(Incremented(acc.cc, a, b), b, a), n |-> acc.n + 1],
                         fgrp, a, i2 + 1, cnt)
           ELSE MixedRow([cc |-> Incremented(Incremented(acc.cc, a, b), b, a), n |-> acc.n],
                         fgrp, a, i2 + 1, cnt)

\* for (male1 ...) { males that see each other; females the males see }
RECURSIVE MaleLoop(_, _, _, _, _, _)
MaleLoop(acc, mgrp, fgrp, male1, M, F) ==
  IF male1 >= M \/ ~Evaluated(acc) THEN acc
  ELSE MaleLoop(MixedRow(SameSexRow(acc, mgrp, mgrp[male1], 0, M), fgrp, mgrp[male1], 0, F),
                mgrp, fgrp, male1 + 1, M, F)

\* for (female1 ...) { females that see each other }
RECURSIVE FemaleLoop(_, _, _, _)
FemaleLoop(acc, fgrp, female1, F) ==
  IF female1 >= F \/ ~Evaluated(acc) THEN acc
  ELSE FemaleLoop(SameSexRow(acc, fgrp, fgrp[female1], 0, F), fgrp, female1 + 1, F)

RECURSIVE GroupLoop(_, _, _, _, _, _, _)
GroupLoop(acc, mday, fday, group, G, M, F) ==
  IF group >= G \/ ~Evaluated(acc) THEN acc
  ELSE GroupLoop(FemaleLoop(MaleLoop(acc, mday[group], fday[group], 0, M, F), fday[group], 0, F),
                 mday, fday, group + 1, G, M, F)

RECURSIVE DayLoop(_, _, _, _, _, _, _, _)
DayLoop(acc, m, f, day, D, G, M, F) ==
  IF day >= D \/ ~Evaluated(acc) THEN acc
  ELSE DayLoop(GroupLoop(acc, m[day], f[day], 0, G, M, F), m, f, day + 1, D, G, M, F)

ContactPass(m, f, G, M, F, D) ==
  LET T == G * (M + F)
      zero == [i \in Range(T) |-> [j \in Range(T) |-> 0]]
  IN  DayLoop([cc |-> zero, n |-> 0], m, f, 0, D, G, M, F)

(***************************************************************************)
(* contact_delta_of_swap_m / contact_delta_of_swap_f.                      *)
(* acc = [delta, thrown]; guarded is TRUE for the male evaluator, whose    *)
(* loss loops throw std::runtime_error on a zero entry, and FALSE for the  *)
(* female evaluator, where those throws are commented out.                 *)
(***************************************************************************)
\* "Calculate losses of contacts of male1": every slot of the group,
\* the slot of the person itself included
RECURSIVE EvalLossLoop(_, _, _, _, _, _, _)
EvalLossLoop(acc, cc, grp, p, i, cnt, guarded) ==
  IF i >= cnt \/ acc.thrown THEN acc
  ELSE IF guarded /\ cc[grp[i]][p] = 0 THEN [acc EXCEPT !.thrown = TRUE]
  ELSE EvalLossLoop([acc EXCEPT !.delta = IF cc[grp[i]][p] = 1 THEN @ - 1 ELSE @],
                    cc, grp, p, i + 1, cnt, guarded)

\* EvalGainLoop without "if (male_in_group2 != male2)": the person who
\* leaves the group is counted as a new contact
RECURSIVE EvalGainLoopCountsLeaver(_, _, _, _, _, _, _)
EvalGainLoopCountsLeaver(acc, cc, grp, p, skip, i, cnt) ==
  IF i >= cnt \/ acc.thrown THEN acc
  ELSE EvalGainLoopCountsLeaver([acc EXCEPT !.delta = IF cc[grp[i]][p] = 0 THEN @ + 1 ELSE @],
                                cc, grp, p, skip, i + 1, cnt)

\* "Calculate newly gained contacts of male1": the other group, the slot
\* of the person who leaves it (skip) excepted
RECURSIVE EvalGainLoop(_, _, _, _, _, _, _)
EvalGainLoop(acc, cc, grp, p, skip, i, cnt) ==
  IF i >= cnt \/ acc.thrown THEN acc
  ELSE EvalGainLoop([acc EXCEPT !.delta = IF cc[grp[i]][p] = 0 /\ i # skip THEN @ + 1 ELSE @],
                    cc, grp, p, skip, i + 1, cnt)

\* EvalSwap without "if (male_group1 == male_group2) return 0"
EvalSwapWithoutSameGroupReturn(sched, cc, cnt, guarded, day, g1, s1, g2, s2) ==
  LET p1 == sched[day][g1][s1]
      p2 == sched[day][g2][s2]
      a1 == EvalLossLoop([delta |-> 0, thrown |-> FALSE], cc, sched[day][g1], p1, 0, cnt, guarded)
      a2 == EvalLossLoop(a1, cc, sched[day][g2], p2, 0, cnt, guarded)
      a3 == EvalGainLoop(a2, cc, sched[day][g2], p1, s2, 0, cnt)
      a4 == EvalGainLoop(a3, cc, sched[day][g1], p2, s1, 0, cnt)
  IN  a4

EvalSwap(sched, cc, cnt, guarded, day, g1, s1, g2, s2) ==
  IF g1 = g2 THEN [delta |-> 0, thrown |-> FALSE]
  ELSE LET p1 == sched[day][g1][s1]
           p2 == sched[day][g2][s2]
           a1 == EvalLossLoop([delta |-> 0, thrown |-> FALSE], cc, sched[day][g1], p1, 0, cnt, guarded)
           a2 == EvalLossLoop(a1, cc, sched[day][g2], p2, 0, cnt, guarded)
           a3 == EvalGainLoop(a2, cc, sched[day][g2], p1, s2, 0, cnt)
           a4 == EvalGainLoop(a3, cc, sched[day][g1], p2, s1, 0, cnt)
       IN  a4

contact_delta_of_swap_m(m, cc, M, day, male_group1, male1, male_group2, male2) ==
  EvalSwap(m, cc, M, TRUE, day, male_group1, male1, male_group2, male2)

contact_delta_of_swap_f(f, cc, F, day, female_group1, female1, female_group2, female2) ==
  EvalSwap(f, cc, F, FALSE, day, female_group1, female1, female_group2, female2)

(***************************************************************************)
(* swap_m / swap_f.  acc = [cc, n, thrown] is (curr_contacts,              *)
(* curr_num_contacts) as the loops run; grp is the group as it stands      *)
(* after the two ids have been exchanged in the schedule.                  *)
(***************************************************************************)
\* SwapLossLoop without "curr_num_contacts--": a pair that stops meeting
\* stays counted
RECURSIVE SwapLossLoopKeepsScore(_, _, _, _, _, _)
SwapLossLoopKeepsScore(acc, grp, p, skip, i, cnt) ==
  IF i >= cnt \/ acc.thrown THEN acc
  ELSE IF i = skip THEN SwapLossLoopKeepsScore(acc, grp, p, skip, i + 1, cnt)
  ELSE IF acc.cc[grp[i]][p] = 0 THEN [acc EXCEPT !.thrown = TRUE]
  ELSE LET q   == grp[i]
           cc1 == [acc.cc EXCEPT ![q][p] = @ - 1]
           cc2 == [cc1 EXCEPT ![p][q] = @ - 1]
       IN  SwapLossLoopKeepsScore([cc |-> cc2, n |-> acc.n, thrown |-> FALSE], grp, p, skip, i + 1, cnt)

\* SwapLossLoop without "if (male_in_group1 != male1)" and without the
\* throw: the entry of the person who took the slot is decremented too,
\* whatever it holds
RECURSIVE SwapLossLoopDecrementsAll(_, _, _, _, _, _)
SwapLossLoopDecrementsAll(acc, grp, p, skip, i, cnt) ==
  IF i >= cnt \/ acc.thrown THEN acc
  ELSE LET q   == grp[i]
           n1  == IF acc.cc[q][p] = 1 THEN acc.n - 1 ELSE acc.n
           cc1 == [acc.cc EXCEPT ![q][p] = @ - 1]
           cc2 == [cc1 EXCEPT ![p][q] = @ - 1]
       IN  SwapLossLoopDecrementsAll([cc |-> cc2, n |-> n1, thrown |-> FALSE], grp, p, skip, i + 1, cnt)

\* "Consider losses of contacts of male1"
RECURSIVE SwapLossLoop(_, _, _, _, _, _)
SwapLossLoop(acc, grp, p, skip, i, cnt) ==
  IF i >= cnt \/ acc.thrown THEN acc
  ELSE IF i = skip THEN SwapLossLoop(acc, grp, p, skip, i + 1, cnt)
  ELSE IF acc.cc[grp[i]][p] = 0 THEN [acc EXCEPT !.thrown = TRUE]
  ELSE LET q   == grp[i]
           n1  == IF acc.cc[q][p] = 1 THEN acc.n - 1 ELSE acc.n
           cc1 == [acc.cc EXCEPT ![q][p] = @ - 1]
           cc2 == [cc1 EXCEPT ![p][q] = @ - 1]
       IN  SwapLossLoop([cc |-> cc2, n |-> n1, thrown |-> FALSE], grp, p, skip, i + 1, cnt)

\* SwapGainLoop without the second increment: only curr_contacts[q][p]
\* is raised
RECURSIVE SwapGainLoopOneHalf(_, _, _, _, _, _)
SwapGainLoopOneHalf(acc, grp, p, skip, i, cnt) ==
  IF i >= cnt \/ acc.thrown THEN acc
  ELSE LET q   == grp[i]
           n1  == IF acc.cc[q][p] = 0 /\ i # skip THEN acc.n + 1 ELSE acc.n
           cc1 == IF i # skip THEN [acc.cc EXCEPT ![q][p] = @ + 1] ELSE acc.cc
       IN  SwapGainLoopOneHalf([cc |-> cc1, n |-> n1, thrown |-> FALSE], grp, p, skip, i + 1, cnt)

\* "Calculate newly gained contacts of male1"
RECURSIVE SwapGainLoop(_, _, _, _, _, _)
SwapGainLoop(acc, grp, p, skip, i, cnt) ==
  IF i >= cnt \/ acc.thrown THEN acc
  ELSE LET q   == grp[i]
           n1  == IF acc.cc[q][p] = 0 /\ i # skip THEN acc.n + 1 ELSE acc.n
           cc1 == IF i # skip THEN [acc.cc EXCEPT ![q][p] = @ + 1] ELSE acc.cc
           cc2 == IF i # skip THEN [cc1 EXCEPT ![p][q] = @ + 1] ELSE cc1
       IN  SwapGainLoop([cc |-> cc2, n |-> n1, thrown |-> FALSE], grp, p, skip, i + 1, cnt)

\* ApplySwap that reads the second id after it has overwritten it: both
\* slots end up holding the first id, and the matrix is left alone
ApplySwapOverwrites(sched, cc, n, cnt, day, g1, s1, g2, s2) ==
  LET p1 == sched[day][g1][s1]
      sched1 == [sched EXCEPT ![day][g2][s2] = p1]
      sched2 == [sched1 EXCEPT ![day][g1][s1] = sched1[day][g2][s2]]
  IN  [sched |-> sched2, cc |-> cc, n |-> n, thrown |-> FALSE]

\* ApplySwap without the two loss loops: the entries of the people the
\* two ids no longer meet on that day are left as they were
ApplySwapGainsOnly(sched, cc, n, cnt, day, g1, s1, g2, s2) ==
  LET p1 == sched[day][g1][s1]
      p2 == sched[day][g2][s2]
      sched1 == [sched EXCEPT ![day][g2][s2] = p1]
      sched2 == [sched1 EXCEPT ![day][g1][s1] = p2]
  IN  IF g1 = g2 THEN [sched |-> sched2, cc |-> cc, n |-> n, thrown |-> FALSE]
      ELSE LET a3 == SwapGainLoop([cc |-> cc, n |-> n, thrown |-> FALSE], sched2[day][g2], p1, s2, 0, cnt)
               a4 == SwapGainLoop(a3, sched2[day][g1], p2, s1, 0, cnt)
           IN  [sched |-> sched2, cc |-> a4.cc, n |-> a4.n, thrown |-> a4.thrown]

\* the result is [sched, cc, n, thrown]: the schedule of the swapped sex,
\* the matrix, the score, and whether a loss loop threw
ApplySwap(sched, cc, n, cnt, day, g1, s1, g2, s2) ==
  LET p1 == sched[day][g1][s1]
      p2 == sched[day][g2][s2]
      sched1 == [sched EXCEPT ![day][g2][s2] = p1]
      sched2 == [sched1 EXCEPT ![day][g1][s1] = p2]
  IN  IF g1 = g2 THEN [sched |-> sched2, cc |-> cc, n |-> n, thrown |-> FALSE]
      ELSE LET a1 == SwapLossLoop([cc |-> cc, n |-> n, thrown |-> FALSE], sched2[day][g1], p1, s1, 0, cnt)
               a2 == SwapLossLoop(a1, sched2[day][g2], p2, s2, 0, cnt)
               a3 == SwapGainLoop(a2, sched2[day][g2], p1, s2, 0, cnt)
               a4 == SwapGainLoop(a3, sched2[day][g1], p2, s1, 0, cnt)
           IN  [sched |-> sched2, cc |-> a4.cc, n |-> a4.n, thrown |-> a4.thrown]

swap_m(m, cc, n, M, day, male_group1, male1, male_group2, male2) ==
  ApplySwap(m, cc, n, M, day, male_group1, male1, male_group2, male2)

swap_f(f, cc, n, F, day, female_group1, female1, female_group2, female2) ==
  ApplySwap(f, cc, n, F, day, female_group1, female1, female_group2, female2)

(***************************************************************************)
(* The state record [m, f, cc, n] and the operations on it.                *)
(***************************************************************************)
Current ==
  [m |-> m_day_group_person, f |-> f_day_group_person,
   cc |-> curr_contacts, n |-> curr_num_contacts]

\* SlotDraws without "+ imm": the draw ranges over every slot of the group
SlotDrawsIgnoringImmovable(K, imm) == 0 .. (K - 1)

\* what a slot draw "xorshift128p(&rnd_state) % (K - imm) + imm" can give
\* for 0 <= imm < K
SlotDraws(K, imm) == imm .. (K - 1)

\* the slot draw of group g cannot be evaluated: the immovable vector has
\* no element g (the read is out of bounds), or the modulus K - imm[g] is 0
SlotDrawFails(immvec, g, K) == g \notin DOMAIN immvec \/ K - immvec[g] = 0

LegalSwap(immvec, K, day, g1, s1, g2, s2) ==
  /\ day \in 1 .. (number_of_days - 1)
  /\ g1 \in DOMAIN immvec /\ g2 \in DOMAIN immvec
  /\ g1 \in Range(number_of_groups) /\ g2 \in Range(number_of_groups)
  /\ s1 \in Range(K) /\ s2 \in Range(K)
  /\ s1 >= immvec[g1] /\ s2 >= immvec[g2]

Entry(sex, day, g1, s1, g2, s2) ==
  [sex |-> sex, day |-> day, g1 |-> g1, s1 |-> s1, g2 |-> g2, s2 |-> s2]

\* st after swap_m / swap_f, with the thrown flag
AfterSwapM(st, day, g1, s1, g2, s2) ==
  LET r == swap_m(st.m, st.cc, st.n, number_of_males_per_group, day, g1, s1, g2, s2)
  IN  [st |-> [m |-> r.sched, f |-> st.f, cc |-> r.cc, n |-> r.n], thrown |-> r.thrown]

AfterSwapF(st, day, g1, s1, g2, s2) ==
  LET r == swap_f(st.f, st.cc, st.n, number_of_females_per_group, day, g1, s1, g2, s2)
  IN  [st |-> [m |-> st.m, f |-> r.sched, cc |-> r.cc, n |-> r.n], thrown |-> r.thrown]

\* MaleCandidate without the test of delta: the swap is always applied
MaleCandidateAlwaysApplies(st, day, g1, s1, g2, s2, accept) ==
  LET r == AfterSwapM(st, day, g1, s1, g2, s2)
  IN  [st |-> r.st, executed |-> TRUE, thrown |-> r.thrown]

\* one candidate move: evaluate, then apply if delta >= 0 or if the
\* acceptance test (u < exp(delta / temp), an input) passes.  The result
\* is [st, executed, thrown].
MaleCandidate(st, day, g1, s1, g2, s2, accept) ==
  LET ev == contact_delta_of_swap_m(st.m, st.cc, number_of_males_per_group, day, g1, s1, g2, s2)
  IN  IF ev.thrown THEN [st |-> st, executed |-> FALSE, thrown |-> TRUE]
      ELSE IF ev.delta >= 0 \/ accept
           THEN LET r == AfterSwapM(st, day, g1, s1, g2, s2)
                IN  [st |-> r.st, executed |-> TRUE, thrown |-> r.thrown]
           ELSE [st |-> st, executed |-> FALSE, thrown |-> FALSE]

FemaleCandidate(st, day, g1, s1, g2, s2, accept) ==
  LET ev == contact_delta_of_swap_f(st.f, st.cc, number_of_females_per_group, day, g1, s1, g2, s2)
  IN  IF ev.thrown THEN [st |-> st, executed |-> FALSE, thrown |-> TRUE]
      ELSE IF ev.delta >= 0 \/ accept
           THEN LET r == AfterSwapF(st, day, g1, s1, g2, s2)
                IN  [st |-> r.st, executed |-> TRUE, thrown |-> r.thrown]
           ELSE [st |-> st, executed |-> FALSE, thrown |-> FALSE]

\* the step ends with the state st; entries are the swaps it executed
Commit(st, newpc, entries, op) ==
  /\ pc' = newpc
  /\ m_day_group_person' = st.m
  /\ f_day_group_person' = st.f
  /\ curr_contacts' = st.cc
  /\ curr_num_contacts' = st.n
  /\ log' = log \o entries
  /\ last' = [op |-> op, swaps |-> Len(entries)]
  /\ UNCHANGED << config_vars, imm_vars, snap, driver_vars >>

(***************************************************************************)
(* The driver variables while no driver has been called.  A temperature    *)
(* is a rational [num, den]; a State value is the record of its members    *)
(* that the steps read or write.                                           *)
(***************************************************************************)
NoTemp == [num |-> 0, den |-> 1]

NoCall ==
  [alg |-> "none", pc |-> "idle", number_of_iterations |-> 0, i |-> 0,
   temp |-> NoTemp, lambda |-> NoTemp, half |-> "m"]

NoWords == [a |-> << 0, 0, 0, 0 >>, b |-> << 0, 0, 0, 0 >>]

NoState ==
  [m |-> EmptyVec, f |-> EmptyVec, cc |-> EmptyVec, n |-> 0,
   imm_m |-> EmptyVec, imm_f |-> EmptyVec, rnd_state |-> NoWords]

NoStep == [op |-> "none", trace |-> << >>, before |-> NoState, temp |-> NoTemp, outcome |-> "ok"]

NoRun == [alg |-> "none", N |-> 0, start |-> NoState, after |-> << >>]

NoRuns == [calls |-> 0, seeded |-> FALSE, rnd_state |-> NoWords, prev |-> NoRun, cur |-> NoRun]

(***************************************************************************)
(* Init: the state State::State() leaves.  The four sizes and the score    *)
(* are not set by the constructor; no action of the model reads them       *)
(* before initialize, and they are shown as 0.                             *)
(***************************************************************************)
Init ==
  /\ pc = "constructed"
  /\ number_of_groups = 0
  /\ number_of_males_per_group = 0
  /\ number_of_females_per_group = 0
  /\ number_of_days = 0
  /\ m_day_group_person = EmptyVec
  /\ f_day_group_person = EmptyVec
  /\ curr_contacts = EmptyVec
  /\ curr_num_contacts = 0
  /\ m_number_of_immovable_people_per_group = EmptyVec
  /\ f_number_of_immovable_people_per_group = EmptyVec
  /\ log = << >>
  /\ snap = [m |-> EmptyVec, f |-> EmptyVec, cc |-> EmptyVec, n |-> 0]
  /\ last = [op |-> "construct", swaps |-> 0]
  /\ drv = NoCall
  /\ param = NoState
  /\ step = NoStep
  /\ runs = NoRuns

\* the schedules [m, f] the fill and shuffle loops of initialize can leave
\* for the arguments cfg: day 0 from the ascending id vectors, every later
\* day from an outcome of its own shuffle
InitialSchedules(cfg) ==
  LET males == create_male_numbers_vector(cfg.G * cfg.M)
      females == create_female_numbers_vector(cfg.G * cfg.F, cfg.G * cfg.M)
  IN  { [m |-> [day \in Range(cfg.D) |->
                  FillDay(IF day = 0 THEN males ELSE sh[1][day], cfg.G, cfg.M)],
         f |-> [day \in Range(cfg.D) |->
                  FillDay(IF day = 0 THEN females ELSE sh[2][day], cfg.G, cfg.F)]] :
        sh \in [1 .. (cfg.D - 1) -> ShuffleOutcomes(males, MaleShuffleOffset)]
                 \X [1 .. (cfg.D - 1) -> ShuffleOutcomes(females, FemaleShuffleOffset)] }

\* the contact pass gave r for the schedules sch
Initialized(sch, r) ==
  /\ m_day_group_person' = sch.m
  /\ f_day_group_person' = sch.f
  /\ curr_contacts' = r.cc
  /\ curr_num_contacts' = r.n
  /\ snap' = [m |-> sch.m, f |-> sch.f, cc |-> r.cc, n |-> r.n]
  /\ pc' = "initialized"

\* State::initialize for the arguments cfg, when both shuffles are defined
InitializeState(cfg) ==
  \E sch \in InitialSchedules(cfg) :
    Initialized(sch, ContactPass(sch.m, sch.f, cfg.G, cfg.M, cfg.F, cfg.D))

\* State::initialize.  The two immovable vectors it declares are locals
\* that shadow the members, so the members keep their value.
initialize ==
  /\ pc = "constructed"
  /\ \E cfg \in Configs :
       /\ number_of_groups' = cfg.G
       /\ number_of_males_per_group' = cfg.M
       /\ number_of_females_per_group' = cfg.F
       /\ number_of_days' = cfg.D
       /\ IF \/ ShuffleUndefined(cfg.G * cfg.M, MaleShuffleOffset, cfg.D)
             \/ ShuffleUndefined(cfg.G * cfg.F, FemaleShuffleOffset, cfg.D)
          THEN /\ pc' = "aborted"
               /\ UNCHANGED << sched_vars, snap >>
          ELSE InitializeState(cfg)
  /\ last' = [op |-> "initialize", swaps |-> 0]
  /\ UNCHANGED << imm_vars, log, driver_vars >>

add_number_of_immovable_males_per_group ==
  /\ pc = "initialized"
  /\ log = << >>
  /\ \E v \in ImmInputs(number_of_groups, number_of_males_per_group) :
       m_number_of_immovable_people_per_group' = v
  /\ last' = [op |-> "add_m", swaps |-> 0]
  /\ UNCHANGED << pc, config_vars, sched_vars, f_number_of_immovable_people_per_group, log, snap, driver_vars >>

add_number_of_immovable_females_per_group ==
  /\ pc = "initialized"
  /\ log = << >>
  /\ \E v \in ImmInputs(number_of_groups, number_of_females_per_group) :
       f_number_of_immovable_people_per_group' = v
  /\ last' = [op |-> "add_f", swaps |-> 0]
  /\ UNCHANGED << pc, config_vars, sched_vars, m_number_of_immovable_people_per_group, log, snap, driver_vars >>

\* a caller's swap_m with legal arguments
SwapMale ==
  /\ pc = "initialized"
  /\ Len(log) < MaxLog
  /\ \E day \in 1 .. (number_of_days - 1), g1, g2 \in Range(number_of_groups),
        s1, s2 \in Range(number_of_males_per_group) :
       /\ LegalSwap(m_number_of_immovable_people_per_group, number_of_males_per_group,
                    day, g1, s1, g2, s2)
       /\ LET r == AfterSwapM(Current, day, g1, s1, g2, s2)
          IN  Commit(r.st, IF r.thrown THEN "thrown" ELSE "initialized",
                     << Entry("m", day, g1, s1, g2, s2) >>, "swap_m")

\* a caller's swap_f with legal arguments
SwapFemale ==
  /\ pc = "initialized"
  /\ Len(log) < MaxLog
  /\ \E day \in 1 .. (number_of_days - 1), g1, g2 \in Range(number_of_groups),
        s1, s2 \in Range(number_of_females_per_group) :
       /\ LegalSwap(f_number_of_immovable_people_per_group, number_of_females_per_group,
                    day, g1, s1, g2, s2)
       /\ LET r == AfterSwapF(Current, day, g1, s1, g2, s2)
          IN  Commit(r.st, IF r.thrown THEN "thrown" ELSE "initialized",
                     << Entry("f", day, g1, s1, g2, s2) >>, "swap_f")

\* the step stops without a result: a slot draw that cannot be evaluated
\* (see SlotDrawFails) or a day draw with modulus number_of_days - 1 = 0
Crash(st, entries, op) == Commit(st, "crashed", entries, op)

Outcome(thrown) == IF thrown THEN "thrown" ELSE "initialized"

Executed(r, e) == IF r.executed THEN << e >> ELSE << >>

try_random_male_swap_and_proceed_if_contact_delta_pos ==
  /\ pc = "initialized"
  /\ Len(log) < MaxLog
  /\ IF number_of_days - 1 = 0 THEN Crash(Current, << >>, "hill_m")
     ELSE \E day \in 1 .. (number_of_days - 1), male_group1, male_group2 \in Range(number_of_groups) :
            IF \/ SlotDrawFails(m_number_of_immovable_people_per_group, male_group1, number_of_males_per_group)
               \/ SlotDrawFails(m_number_of_immovable_people_per_group, male_group2, number_of_males_per_group)
            THEN Crash(Current, << >>, "hill_m")
            ELSE \E male1 \in SlotDraws(number_of_males_per_group,
                                        m_number_of_immovable_people_per_group[male_group1]),
                    male2 \in SlotDraws(number_of_males_per_group,
                                        m_number_of_immovable_people_per_group[male_group2]) :
                   LET r == MaleCandidate(Current, day, male_group1, male1, male_group2, male2, FALSE)
                   IN  Commit(r.st, Outcome(r.thrown),
                              Executed(r, Entry("m", day, male_group1, male1, male_group2, male2)),
                              "hill_m")

try_random_female_swap_and_proceed_if_contact_delta_pos ==
  /\ pc = "initialized"
  /\ Len(log) < MaxLog
  /\ IF number_of_days - 1 = 0 THEN Crash(Current, << >>, "hill_f")
     ELSE \E day \in 1 .. (number_of_days - 1), female_group1, female_group2 \in Range(number_of_groups) :
            IF \/ SlotDrawFails(f_number_of_immovable_people_per_group, female_group1, number_of_females_per_group)
               \/ SlotDrawFails(f_number_of_immovable_people_per_group, female_group2, number_of_females_per_group)
            THEN Crash(Current, << >>, "hill_f")
            ELSE \E female1 \in SlotDraws(number_of_females_per_group,
                                          f_number_of_immovable_people_per_group[female_group1]),
                    female2 \in SlotDraws(number_of_females_per_group,
                                          f_number_of_immovable_people_per_group[female_group2]) :
                   LET r == FemaleCandidate(Current, day, female_group1, female1, female_group2, female2, FALSE)
                   IN  Commit(r.st, Outcome(r.thrown),
                              Executed(r, Entry("f", day, female_group1, female1, female_group2, female2)),
                              "hill_f")

\* the female half of perform_simulated_annealing_step, run on the state
\* st1 the male half left, with the swaps done1 the male half executed;
\* it uses the day the male half drew
AnnealFemaleHalf(st1, done1, day) ==
  \E female_group1, female_group2 \in Range(number_of_groups) :
    IF \/ SlotDrawFails(f_number_of_immovable_people_per_group, female_group1, number_of_females_per_group)
       \/ SlotDrawFails(f_number_of_immovable_people_per_group, female_group2, number_of_females_per_group)
    THEN Crash(st1, done1, "anneal")
    ELSE \E female1 \in SlotDraws(number_of_females_per_group,
                                  f_number_of_immovable_people_per_group[female_group1]),
            female2 \in SlotDraws(number_of_females_per_group,
                                  f_number_of_immovable_people_per_group[female_group2]),
            accept_f \in BOOLEAN :
           LET r2 == FemaleCandidate(st1, day, female_group1, female1, female_group2, female2, accept_f)
           IN  Commit(r2.st, Outcome(r2.thrown),
                      done1 \o Executed(r2, Entry("f", day, female_group1, female1, female_group2, female2)),
                      "anneal")

perform_simulated_annealing_step ==
  /\ pc = "initialized"
  /\ Len(log) < MaxLog
  /\ IF number_of_days - 1 = 0 THEN Crash(Current, << >>, "anneal")
     ELSE \E day \in 1 .. (number_of_days - 1), male_group1, male_group2 \in Range(number_of_groups) :
            IF \/ SlotDrawFails(m_number_of_immovable_people_per_group, male_group1, number_of_males_per_group)
               \/ SlotDrawFails(m_number_of_immovable_people_per_group, male_group2, number_of_males_per_group)
            THEN Crash(Current, << >>, "anneal")
            ELSE \E male1 \in SlotDraws(number_of_males_per_group,
                                        m_number_of_immovable_people_per_group[male_group1]),
                    male2 \in SlotDraws(number_of_males_per_group,
                                        m_number_of_immovable_people_per_group[male_group2]),
                    accept_m \in BOOLEAN :
                   LET r1 == MaleCandidate(Current, day, male_group1, male1, male_group2, male2, accept_m)
                       done1 == Executed(r1, Entry("m", day, male_group1, male1, male_group2, male2))
                   IN  IF r1.thrown THEN Commit(r1.st, "thrown", done1, "anneal")
                       ELSE AnnealFemaleHalf(r1.st, done1, day)

\* the caller applies the newest swap of the log again, with the same
\* arguments (a LIFO reversal, one swap per step)
UndoSwap ==
  /\ pc \in {"initialized", "undoing"}
  /\ log # << >>
  /\ LET e == log[Len(log)]
         r == IF e.sex = "m" THEN AfterSwapM(Current, e.day, e.g1, e.s1, e.g2, e.s2)
                             ELSE AfterSwapF(Current, e.day, e.g1, e.s1, e.g2, e.s2)
     IN  /\ pc' = IF r.thrown THEN "thrown"
                  ELSE IF Len(log) = 1 THEN "initialized" ELSE "undoing"
         /\ m_day_group_person' = r.st.m
         /\ f_day_group_person' = r.st.f
         /\ curr_contacts' = r.st.cc
         /\ curr_num_contacts' = r.st.n
         /\ log' = SubSeq(log, 1, Len(log) - 1)
         /\ last' = [op |-> "undo", swaps |-> IF last.op = "undo" THEN last.swaps + 1 ELSE 1]
         /\ UNCHANGED << config_vars, imm_vars, snap, driver_vars >>

Next ==
  \/ initialize
  \/ add_number_of_immovable_males_per_group
  \/ add_number_of_immovable_females_per_group
  \/ SwapMale
  \/ SwapFemale
  \/ try_random_male_swap_and_proceed_if_contact_delta_pos
  \/ try_random_female_swap_and_proceed_if_contact_delta_pos
  \/ perform_simulated_annealing_step
  \/ UndoSwap

Spec == Init /\ [][Next]_vars

(***************************************************************************)
(* The pseudorandom generator.  A uint64_t is four 16-bit limbs, the       *)
(* least significant first, so that every intermediate value stays inside  *)
(* the integers of the checker and the 64-bit wrap-around is kept.         *)
(***************************************************************************)
LimbBase == 65536

Pow2(k) == 2 ^ k

RECURSIVE Xor16(_, _)
Xor16(x, y) ==
  IF x = 0 THEN y
  ELSE IF y = 0 THEN x
  ELSE ((x + y) % 2) + 2 * Xor16(x \div 2, y \div 2)

Limb(x, i) == IF i \in 1 .. 4 THEN x[i] ELSE 0

\* x ^ y
Xor64(x, y) == << Xor16(x[1], y[1]), Xor16(x[2], y[2]), Xor16(x[3], y[3]), Xor16(x[4], y[4]) >>

\* x << k on 64 bits, for k not a multiple of 16
Shl64(x, k) ==
  LET q == k \div 16
      r == k % 16
      L(i) == ((Limb(x, i - q) * Pow2(r)) % LimbBase) + (Limb(x, i - q - 1) \div Pow2(16 - r))
  IN  << L(1), L(2), L(3), L(4) >>

\* x >> k on 64 bits, for k not a multiple of 16
Shr64(x, k) ==
  LET q == k \div 16
      r == k % 16
      L(i) == (Limb(x, i + q) \div Pow2(r)) + ((Limb(x, i + q + 1) * Pow2(16 - r)) % LimbBase)
  IN  << L(1), L(2), L(3), L(4) >>

\* x + y modulo 2^64
Add64(x, y) ==
  LET s1 == x[1] + y[1]
      s2 == x[2] + y[2] + (s1 \div LimbBase)
      s3 == x[3] + y[3] + (s2 \div LimbBase)
      s4 == x[4] + y[4] + (s3 \div LimbBase)
  IN  << s1 % LimbBase, s2 % LimbBase, s3 % LimbBase, s4 % LimbBase >>

\* x % n for 1 <= n < 2^15
Mod64(x, n) ==
  LET r4 == x[4] % n
      r3 == (r4 * LimbBase + x[3]) % n
      r2 == (r3 * LimbBase + x[2]) % n
  IN  (r2 * LimbBase + x[1]) % n

\* a value below 2^32 as a uint64_t
FromNat(n) == << n % LimbBase, (n \div LimbBase) % LimbBase, 0, 0 >>

\* "state->b = t; return t + s;" with state->a = s already stored
XorshiftReturn(t, s) == [state |-> [a |-> s, b |-> t], value |-> Add64(t, s)]

\* "t ^= s ^ (s >> 26);"
XorshiftC(t, s) == XorshiftReturn(Xor64(t, Xor64(s, Shr64(s, 26))), s)

\* "t ^= t >> 17;"
XorshiftB(t, s) == XorshiftC(Xor64(t, Shr64(t, 17)), s)

\* a generator without feedback: "t = t << 23; state->b = t;"
XorshiftShiftsOnly(t, s) == XorshiftReturn(Shl64(t, 23), s)

\* "t ^= t << 23;"
XorshiftA(t, s) == XorshiftB(Xor64(t, Shl64(t, 23)), s)

\* State::xorshift128p: the new generator state and the word returned
xorshift128p(state) == XorshiftA(state.a, state.b)

\* the second seed word the constructor stores
SeedB == 1234124124

\* the values std::time(0) gives at the construction of the State: the
\* MaxTime seconds that follow ClockStart, and one later second
ClockStart == 1762300800

MaxTime == 3

\* one construction later than those: LaterTime seconds after ClockStart
LaterTime == 15

Times == { ClockStart + t : t \in 1 .. MaxTime } \cup { ClockStart + LaterTime }

\* State::State(): the generator words after construction at time t
SeededWords(t) == [a |-> FromNat(t), b |-> FromNat(SeedB)]

\* a generator whose word also depends on how often a driver was called
DrawMixesCalls(p) ==
  [p |-> [p EXCEPT !.rnd_state = xorshift128p(p.rnd_state).state],
   word |-> Add64(xorshift128p(p.rnd_state).value, FromNat(LimbBase * runs.calls))]

\* one call of xorshift128p on the State value p
Draw(p) ==
  LET r == xorshift128p(p.rnd_state)
  IN  [p |-> [p EXCEPT !.rnd_state = r.state], word |-> r.value]

(***************************************************************************)
(* "xorshift128p(&rnd_state) % (K - imm) + imm" stored in an unsigned int. *)
(* K - imm is computed in unsigned int: for imm > K it wraps to            *)
(* 2^32 - (imm - K).  The result is [fails, slot]: fails when the modulus  *)
(* is 0; slot is the index when it is below 2^16 and LimbBase (an index    *)
(* outside every vector of the model) otherwise.                           *)
(***************************************************************************)
WrappedSlotDraw(word, K, imm) ==
  LET k == imm - K                          \* the modulus is m = 2^32 - k
      \* word = hi * 2^32 + lo is congruent to hi * k + lo modulo m
      v1 == word[3] * k + word[1]
      v2 == word[4] * k + word[2] + (v1 \div LimbBase)
      v3 == v2 \div LimbBase
      \* v3 * 2^32 + low is congruent to v3 * k + low
      x1 == (v1 % LimbBase) + v3 * k
      x2 == (v2 % LimbBase) + (x1 \div LimbBase)
      x3 == x2 \div LimbBase
      y1 == x1 % LimbBase
      y2 == x2 % LimbBase
      \* the remainder r as [small, low limb, high limb]
      r == IF x3 > 0 THEN << k + y1, 0 >>              \* 2^32 + y1 is congruent to k + y1
           ELSE IF y2 = LimbBase - 1 /\ y1 >= LimbBase - k
                THEN << y1 - (LimbBase - k), 0 >>      \* one subtraction of m
                ELSE << y1, y2 >>
      \* (r + imm) modulo 2^32
      z1 == r[1] + imm
      z2 == r[2] + (z1 \div LimbBase)
  IN  IF z2 % LimbBase = 0 THEN z1 % LimbBase ELSE LimbBase

SlotDraw(word, K, imm) ==
  IF K - imm = 0 THEN [fails |-> TRUE, slot |-> 0]
  ELSE IF K - imm > 0 THEN [fails |-> FALSE, slot |-> Mod64(word, K - imm) + imm]
  ELSE [fails |-> FALSE, slot |-> WrappedSlotDraw(word, K, imm)]

(***************************************************************************)
(* Temperatures.  t_start, t_end, temp and lambda are doubles in the       *)
(* source; here they are rationals [num, den] in lowest terms, which is    *)
(* exact for the iteration counts of the model except for lambda of 3      *)
(* iterations (pow gives the double next to 100).                          *)
(***************************************************************************)
RECURSIVE Gcd(_, _)
Gcd(x, y) == IF y = 0 THEN x ELSE Gcd(y, x % y)

Ratio(num, den) == LET g == Gcd(num, den) IN [num |-> num \div g, den |-> den \div g]

t_start == Ratio(1000, 1)

t_end == Ratio(1, 1000)

\* pow(t_start / t_end, 1.0 / number_of_iterations); 1.0 / 0 is infinity
\* and so is the power
Lambda(N) ==
  CASE N = 0 -> [num |-> 1, den |-> 0]
    [] N = 1 -> Ratio(1000000, 1)
    [] N = 2 -> Ratio(1000, 1)
    [] N = 3 -> Ratio(100, 1)

\* temp / lambda
Cooled(temp, lambda) == Ratio(temp.num * lambda.den, temp.den * lambda.num)

\* floor(exp(-k / temp) * 2^30) for the temperatures a step can be given
ExpTable(temp) ==
  CASE temp = Ratio(1000, 1) ->
         << 1072668618, 1071596486, 1070525425, 1069455435, 1068386514, 1067318661,
            1066251876, 1065186157, 1064121503, 1063057914, 1061995387, 1060933923 >>
    [] temp = Ratio(10, 1) ->
         << 971561779, 879105452, 795447507, 719750668, 651257336, 589282007,
            533204409, 482463301, 436550848, 395007542, 357417604, 323404822 >>
    [] temp = Ratio(1, 1) ->
         << 395007542, 145315153, 53458457, 19666267, 7234815, 2661539,
            979125, 360200, 132510, 48747, 17933, 6597 >>
    [] temp = Ratio(1, 10) ->
         << 48747, 2, 0, 0, 0, 0, 0, 0, 0, 0, 0, 0 >>

\* the 30 most significant bits of a word: floor(word / 2^34)
Top30(word) == word[4] * Pow2(14) + (word[3] \div 4)

\* an acceptance test that passes for every word
AcceptsAlways(word, delta, temp) == TRUE

\* static_cast<double>(word) / static_cast<double>(UINT64_MAX) <
\* exp(static_cast<double>(delta) / temp), for delta < 0, decided on the
\* 30 most significant bits of both sides
Accepts(word, delta, temp) == Top30(word) < ExpTable(temp)[0 - delta]

(***************************************************************************)
(* The steps as functions of a State value p = [m, f, cc, n, imm_m, imm_f, *)
(* rnd_state] (the sizes are those of initialize, which no step changes).  *)
(* A step is a sequence of statements; each takes the frame the statement  *)
(* before it left: the State value p, the locals day, g1, g2, s1, s2,      *)
(* delta, accept, how the step has gone so far, and the trace of generator *)
(* draws, evaluator calls and swap calls made so far.  The outcomes are    *)
(*   "ok"         the statements so far returned,                          *)
(*   "thrown"     the evaluator or the swap threw,                         *)
(*   "crashed"    a draw had modulus 0, or read an immovable vector        *)
(*                beyond its end,                                          *)
(*   "undefined"  a drawn slot is beyond the end of its group.             *)
(* The last two are undefined behaviour: the model follows the program no  *)
(* further, and the frame is the one of the last completed statement.      *)
(* A statement that finds an outcome other than "ok" is never reached.     *)
(***************************************************************************)
Sched(p) == [m |-> p.m, f |-> p.f, cc |-> p.cc, n |-> p.n]

WithSched(p, st) == [p EXCEPT !.m = st.m, !.f = st.f, !.cc = st.cc, !.n = st.n]

NoSched == [m |-> EmptyVec, f |-> EmptyVec, cc |-> EmptyVec, n |-> 0]

\* a draw "xorshift128p(&rnd_state) % modulus (+ offset)" for the candidate
\* of sex; a wrapped modulus 2^32 - k is written -k
DrawEv(sex, use, modulus, value) ==
  [kind |-> "draw", sex |-> sex, use |-> use, args |-> << modulus, value >>, delta |-> 0,
   on |-> NoSched, temp |-> NoTemp, word |-> << >>]

\* the draw of the acceptance test: the word drawn, the temperature the
\* test used and what the test gave
AcceptEv(sex, word, temp, accept) ==
  [kind |-> "draw", sex |-> sex, use |-> "u", args |-> << accept >>, delta |-> 0,
   on |-> NoSched, temp |-> temp, word |-> word]

\* a call of contact_delta_of_swap_m / _f on the schedule state on
EvalEv(sex, args, delta, on) ==
  [kind |-> "eval", sex |-> sex, use |-> "delta", args |-> args, delta |-> delta,
   on |-> on, temp |-> NoTemp, word |-> << >>]

\* a call of swap_m / swap_f
SwapEv(sex, args) ==
  [kind |-> "swap", sex |-> sex, use |-> "swap", args |-> args, delta |-> 0,
   on |-> NoSched, temp |-> NoTemp, word |-> << >>]

Frame(p) ==
  [p |-> p, outcome |-> "ok", trace |-> << >>, day |-> 0, g1 |-> 0, g2 |-> 0,
   s1 |-> 0, s2 |-> 0, delta |-> 0, accept |-> FALSE]

Logged(fr, p, evs) == [fr EXCEPT !.p = p, !.trace = @ \o evs]

Stopped(fr, p, outcome, evs) == [fr EXCEPT !.p = p, !.outcome = outcome, !.trace = @ \o evs]

FrameArgs(fr) == << fr.day, fr.g1, fr.s1, fr.g2, fr.s2 >>

SizeOf(sex) == IF sex = "m" THEN number_of_males_per_group ELSE number_of_females_per_group

ImmOf(p, sex) == IF sex = "m" THEN p.imm_m ELSE p.imm_f

EvalOf(sex, st, day, g1, s1, g2, s2) ==
  IF sex = "m"
  THEN contact_delta_of_swap_m(st.m, st.cc, number_of_males_per_group, day, g1, s1, g2, s2)
  ELSE contact_delta_of_swap_f(st.f, st.cc, number_of_females_per_group, day, g1, s1, g2, s2)

CandidateOf(sex, st, day, g1, s1, g2, s2, accept) ==
  IF sex = "m" THEN MaleCandidate(st, day, g1, s1, g2, s2, accept)
  ELSE FemaleCandidate(st, day, g1, s1, g2, s2, accept)

\* an evaluator that exchanges the two slots it was asked about and draws
\* a word
AfterEvaluationExchanges(p, sex, day, g1, s1, g2, s2) ==
  WithSched(Draw(p).p, CandidateOf(sex, Sched(p), day, g1, s1, g2, s2, TRUE).st)

\* the object after contact_delta_of_swap_m / _f returned: the evaluators
\* assign no member and draw no word
AfterEvaluation(p, sex, day, g1, s1, g2, s2) == p

\* "unsigned int day = (xorshift128p(&rnd_state) % (number_of_days - 1)) + 1;"
DayDrawn(fr, sex) ==
  LET d == Draw(fr.p)
      modulus == number_of_days - 1
  IN  IF fr.outcome # "ok" THEN fr
      ELSE IF modulus = 0 THEN Stopped(fr, d.p, "crashed", << DrawEv(sex, "day", 0, 0) >>)
      ELSE [Logged(fr, d.p, << DrawEv(sex, "day", modulus, Mod64(d.word, modulus) + 1) >>)
              EXCEPT !.day = Mod64(d.word, modulus) + 1]

\* "unsigned int male_group1 = xorshift128p(&rnd_state) % number_of_groups;"
\* and the like; use is "group1" or "group2"
GroupDrawn(fr, sex, use) ==
  LET d == Draw(fr.p)
      g == Mod64(d.word, number_of_groups)
  IN  IF fr.outcome # "ok" THEN fr
      ELSE IF use = "group1"
           THEN [Logged(fr, d.p, << DrawEv(sex, use, number_of_groups, g) >>) EXCEPT !.g1 = g]
           ELSE [Logged(fr, d.p, << DrawEv(sex, use, number_of_groups, g) >>) EXCEPT !.g2 = g]

\* "unsigned int male1 = xorshift128p(&rnd_state) % (number_of_males_per_group
\* - m_number_of_immovable_people_per_group[male_group1]) +
\* m_number_of_immovable_people_per_group[male_group1];" and the like; use
\* is "slot1" or "slot2"
SlotDrawn(fr, sex, use) ==
  LET g == IF use = "slot1" THEN fr.g1 ELSE fr.g2
      imm == ImmOf(fr.p, sex)
      d == Draw(fr.p)
      sd == SlotDraw(d.word, SizeOf(sex), imm[g])
  IN  IF fr.outcome # "ok" THEN fr
      ELSE IF g \notin DOMAIN imm THEN Stopped(fr, fr.p, "crashed", << >>)
      ELSE IF sd.fails THEN Stopped(fr, d.p, "crashed", << DrawEv(sex, use, 0, 0) >>)
      ELSE IF use = "slot1"
           THEN [Logged(fr, d.p, << DrawEv(sex, use, SizeOf(sex) - imm[g], sd.slot) >>)
                   EXCEPT !.s1 = sd.slot]
           ELSE [Logged(fr, d.p, << DrawEv(sex, use, SizeOf(sex) - imm[g], sd.slot) >>)
                   EXCEPT !.s2 = sd.slot]

\* the evaluator returned ev
DeltaStored(fr, sex, ev) ==
  IF ev.thrown
  THEN Stopped(fr, fr.p, "thrown", << EvalEv(sex, FrameArgs(fr), ev.delta, Sched(fr.p)) >>)
  ELSE [Logged(fr, AfterEvaluation(fr.p, sex, fr.day, fr.g1, fr.s1, fr.g2, fr.s2),
               << EvalEv(sex, FrameArgs(fr), ev.delta, Sched(fr.p)) >>)
          EXCEPT !.delta = ev.delta]

\* "int delta_male = contact_delta_of_swap_m(day, male_group1, male1,
\* male_group2, male2);" and the like
DeltaEvaluated(fr, sex) ==
  IF fr.outcome # "ok" THEN fr
  ELSE IF fr.s1 \notin Range(SizeOf(sex)) \/ fr.s2 \notin Range(SizeOf(sex))
       THEN Stopped(fr, fr.p, "undefined", << >>)
  ELSE DeltaStored(fr, sex, EvalOf(sex, Sched(fr.p), fr.day, fr.g1, fr.s1, fr.g2, fr.s2))

\* AcceptanceDrawn with the acceptance word drawn before delta is tested:
\* an annealing step draws it for every candidate
AcceptanceDrawnAlways(fr, sex, temp, annealing) ==
  LET d == Draw(fr.p)
      accept == IF fr.delta < 0 THEN Accepts(d.word, fr.delta, temp) ELSE FALSE
  IN  IF fr.outcome # "ok" THEN fr
      ELSE IF annealing
           THEN [Logged(fr, d.p, << AcceptEv(sex, d.word, temp, accept) >>)
                   EXCEPT !.accept = accept]
           ELSE [fr EXCEPT !.accept = FALSE]

\* the condition of the "else if": a word is drawn when delta < 0, and
\* only in an annealing step
AcceptanceDrawn(fr, sex, temp, annealing) ==
  LET d == Draw(fr.p)
      accept == Accepts(d.word, fr.delta, temp)
  IN  IF fr.outcome # "ok" THEN fr
      ELSE IF annealing /\ fr.delta < 0
           THEN [Logged(fr, d.p, << AcceptEv(sex, d.word, temp, accept) >>)
                   EXCEPT !.accept = accept]
           ELSE [fr EXCEPT !.accept = FALSE]

\* a decision that leaves the two ids of a rejected candidate exchanged in
\* the schedule
DecidedLeavesExchange(fr, sex, r) ==
  IF r.executed
  THEN Stopped(fr, WithSched(fr.p, r.st), IF r.thrown THEN "thrown" ELSE "ok",
               << SwapEv(sex, FrameArgs(fr)) >>)
  ELSE IF sex = "m"
       THEN [fr EXCEPT !.p.m[fr.day][fr.g1][fr.s1] = fr.p.m[fr.day][fr.g2][fr.s2],
                       !.p.m[fr.day][fr.g2][fr.s2] = fr.p.m[fr.day][fr.g1][fr.s1]]
       ELSE [fr EXCEPT !.p.f[fr.day][fr.g1][fr.s1] = fr.p.f[fr.day][fr.g2][fr.s2],
                       !.p.f[fr.day][fr.g2][fr.s2] = fr.p.f[fr.day][fr.g1][fr.s1]]

\* the candidate was decided with the result r
Decided(fr, sex, r) ==
  IF r.executed
  THEN Stopped(fr, WithSched(fr.p, r.st), IF r.thrown THEN "thrown" ELSE "ok",
               << SwapEv(sex, FrameArgs(fr)) >>)
  ELSE fr

\* the "if (delta >= 0) swap; else if (accepted) swap;"
Applied(fr, sex) ==
  IF fr.outcome # "ok" THEN fr
  ELSE Decided(fr, sex, CandidateOf(sex, Sched(fr.p), fr.day, fr.g1, fr.s1, fr.g2, fr.s2, fr.accept))

\* one candidate move on the day of the frame: four draws, the evaluation
\* and the decision
CandidateMove(fr, sex, temp, annealing) ==
  Applied(
    AcceptanceDrawn(
      DeltaEvaluated(
        SlotDrawn(
          SlotDrawn(
            GroupDrawn(GroupDrawn(fr, sex, "group1"), sex, "group2"),
            sex, "slot1"),
          sex, "slot2"),
        sex),
      sex, temp, annealing),
    sex)

\* State::try_random_male_swap_and_proceed_if_contact_delta_pos on p
HillMaleStep(p) == CandidateMove(DayDrawn(Frame(p), "m"), "m", NoTemp, FALSE)

\* State::try_random_female_swap_and_proceed_if_contact_delta_pos on p
HillFemaleStep(p) == CandidateMove(DayDrawn(Frame(p), "f"), "f", NoTemp, FALSE)

\* perform_simulated_annealing_step with the two candidates exchanged
AnnealingStepFemaleFirst(p, temp) ==
  CandidateMove(CandidateMove(DayDrawn(Frame(p), "both"), "f", temp, TRUE), "m", temp, TRUE)

\* State::perform_simulated_annealing_step(temp) on p: one day draw, the
\* male candidate, then the female candidate on the same day
AnnealingStep(p, temp) ==
  CandidateMove(CandidateMove(DayDrawn(Frame(p), "both"), "m", temp, TRUE), "f", temp, TRUE)

(***************************************************************************)
(* The drivers.  run_random_hillclimbing_algorithm and                     *)
(* run_simulated_annealing_algorithm take their State by value: param is   *)
(* the copy they work on, and the object of the caller is the one the      *)
(* variables of initialize describe.                                       *)
(***************************************************************************)
MaxIterations == 2

MaxCalls == 2

\* the caller is not inside a driver, and no driver has ended the process
CallerTurn == drv.pc \in {"idle", "returned"}

\* the generator words of the caller's object: set by the constructor from
\* the clock, and read for the first time when the object is first copied
CallerWords(t) == IF runs.seeded THEN runs.rnd_state ELSE SeededWords(t)

\* the State value of the caller's object
CallerState(words) ==
  [m |-> m_day_group_person, f |-> f_day_group_person, cc |-> curr_contacts,
   n |-> curr_num_contacts, imm_m |-> m_number_of_immovable_people_per_group,
   imm_f |-> f_number_of_immovable_people_per_group, rnd_state |-> words]

\* the by-value State parameter of a driver: a member-wise copy of s
Parameter(s, calls) == s

\* the record of a driver call: its arguments and the State value of the
\* parameter after each completed iteration
Run(alg, N, start) == [alg |-> alg, N |-> N, start |-> start, after |-> << >>]

\* the caller's object is left as it is by every driver action
CallerObjectUnchanged ==
  UNCHANGED << pc, config_vars, sched_vars, imm_vars, log, snap >>

\* a driver is entered with number_of_iterations = N; the caller has one
\* iteration count, which it gives to every driver it calls
Call(alg, N, temp, lambda) ==
  /\ CallerTurn
  /\ pc = "initialized"
  /\ runs.calls < MaxCalls
  /\ runs.calls = 0 \/ N = runs.cur.N
  /\ \E t \in Times :
       LET s == CallerState(CallerWords(t))
           p == Parameter(s, runs.calls)
       IN  /\ param' = p
           /\ runs' = [calls |-> runs.calls + 1, seeded |-> TRUE, rnd_state |-> s.rnd_state,
                       prev |-> runs.cur, cur |-> Run(alg, N, p)]
  /\ drv' = [alg |-> alg, pc |-> "running", number_of_iterations |-> N, i |-> 0,
             temp |-> temp, lambda |-> lambda, half |-> "m"]
  /\ step' = NoStep
  /\ last' = [op |-> alg, swaps |-> 0]
  /\ CallerObjectUnchanged

\* run_simulated_annealing_algorithm(s, N) up to its loop
CallAnneal == \E N \in 0 .. MaxIterations : Call("anneal", N, t_start, Lambda(N))

\* run_random_hillclimbing_algorithm(s, N) up to its loop
CallHill == \E N \in 0 .. MaxIterations : Call("hill", N, NoTemp, NoTemp)

\* the step r was run on param with the temperature temp
StepDone(op, r, temp) ==
  /\ param' = r.p
  /\ step' = [op |-> op, trace |-> r.trace, before |-> param, temp |-> temp, outcome |-> r.outcome]

\* the iteration that ends with the step r is complete
IterationDone(r) ==
  runs' = IF r.outcome = "ok" THEN [runs EXCEPT !.cur.after = Append(@, r.p)] ELSE runs

\* the body of the annealing loop, where the step gave r
AnnealBody(r) ==
  /\ StepDone("anneal", r, drv.temp)
  /\ IterationDone(r)
  /\ drv' = IF r.outcome = "ok"
            THEN [drv EXCEPT !.i = @ + 1, !.temp = Cooled(drv.temp, drv.lambda)]
            ELSE [drv EXCEPT !.pc = r.outcome]

\* one iteration of the annealing loop:
\*   simulated_annealing.perform_simulated_annealing_step(temp);
\*   temp = temp / lambda;
AnnealIteration ==
  /\ pc = "initialized"
  /\ drv.pc = "running" /\ drv.alg = "anneal"
  /\ drv.i < drv.number_of_iterations
  /\ AnnealBody(AnnealingStep(param, drv.temp))
  /\ UNCHANGED last
  /\ CallerObjectUnchanged

\* the first statement of the hill-climbing loop body, where the step gave r
HillMaleBody(r) ==
  /\ StepDone("hill_m", r, NoTemp)
  /\ drv' = IF r.outcome = "ok" THEN [drv EXCEPT !.half = "f"] ELSE [drv EXCEPT !.pc = r.outcome]

\* hill_climbing.try_random_male_swap_and_proceed_if_contact_delta_pos();
HillMaleIteration ==
  /\ pc = "initialized"
  /\ drv.pc = "running" /\ drv.alg = "hill" /\ drv.half = "m"
  /\ drv.i < drv.number_of_iterations
  /\ HillMaleBody(HillMaleStep(param))
  /\ UNCHANGED << runs, last >>
  /\ CallerObjectUnchanged

\* the second statement of the hill-climbing loop body, where the step
\* gave r, and ++i
HillFemaleBody(r) ==
  /\ StepDone("hill_f", r, NoTemp)
  /\ IterationDone(r)
  /\ drv' = IF r.outcome = "ok"
            THEN [drv EXCEPT !.i = @ + 1, !.half = "m"]
            ELSE [drv EXCEPT !.pc = r.outcome]

\* hill_climbing.try_random_female_swap_and_proceed_if_contact_delta_pos();
HillFemaleIteration ==
  /\ pc = "initialized"
  /\ drv.pc = "running" /\ drv.alg = "hill" /\ drv.half = "f"
  /\ HillFemaleBody(HillFemaleStep(param))
  /\ UNCHANGED last
  /\ CallerObjectUnchanged

\* a loop that may be left before the iteration count is reached
ReturnEarly ==
  /\ drv.pc = "running" /\ drv.half = "m"
  /\ drv.i <= drv.number_of_iterations
  /\ drv' = [drv EXCEPT !.pc = "returned"]
  /\ UNCHANGED << param, step, runs, last >>
  /\ CallerObjectUnchanged

\* the loop condition fails; the driver prints the result held by its
\* parameter and returns nothing
Return ==
  /\ drv.pc = "running" /\ drv.half = "m"
  /\ drv.i = drv.number_of_iterations
  /\ drv' = [drv EXCEPT !.pc = "returned"]
  /\ UNCHANGED << param, step, runs, last >>
  /\ CallerObjectUnchanged

\* an iteration of either loop on a State that initialize never sized:
\* the step reads the four sizes, which the constructor leaves without a
\* value, and indexes the empty vectors
UninitializedIteration ==
  /\ drv.pc = "running"
  /\ pc = "constructed"
  /\ drv.i < drv.number_of_iterations
  /\ \E outcome \in {"crashed", "undefined"} :
       /\ drv' = [drv EXCEPT !.pc = outcome]
       /\ step' = [op |-> drv.alg, trace |-> << >>, before |-> param, temp |-> drv.temp,
                   outcome |-> outcome]
  /\ UNCHANGED << param, runs, last >>
  /\ CallerObjectUnchanged

(***************************************************************************)
(* The caller around the drivers: main sizes the object and sets the       *)
(* immovable vectors before its first driver call.  A caller may also      *)
(* break the contract: vectors of the wrong length or with an entry above  *)
(* the group size, and calls on an object that was never initialized.      *)
(***************************************************************************)
\* no driver has been called yet
Unused == CallerTurn /\ runs.calls = 0

\* main sets the object up, then may ask an evaluator about one swap, then
\* calls its drivers
Setup == Unused /\ step = NoStep

DriverInitialize == Setup /\ initialize

DriverAddMales == Setup /\ add_number_of_immovable_males_per_group

DriverAddFemales == Setup /\ add_number_of_immovable_females_per_group

\* vectors that break the contract of the setters for G groups of K
ContractBreaking(G, K) ==
  { [g \in Range(G - 1) |-> 0],
    [g \in Range(G) |-> IF g = 0 THEN K + 1 ELSE 0] }

\* what a setter does with the vector v it is given: it stores it
Stored(old, v) == v

\* the State value the caller's object has had since its last operation
Before(words) == [NoStep EXCEPT !.before = CallerState(words)]

MisusedAddMales ==
  /\ Unused
  /\ pc \in {"constructed", "initialized"}
  /\ \E v \in ContractBreaking(number_of_groups, number_of_males_per_group) :
       m_number_of_immovable_people_per_group' =
         Stored(m_number_of_immovable_people_per_group, v)
  /\ last' = [op |-> "misused_add_m", swaps |-> 0]
  /\ step' = Before(runs.rnd_state)
  /\ UNCHANGED << pc, config_vars, sched_vars, f_number_of_immovable_people_per_group,
                  log, snap, drv, param, runs >>

MisusedAddFemales ==
  /\ Unused
  /\ pc \in {"constructed", "initialized"}
  /\ \E v \in ContractBreaking(number_of_groups, number_of_females_per_group) :
       f_number_of_immovable_people_per_group' =
         Stored(f_number_of_immovable_people_per_group, v)
  /\ last' = [op |-> "misused_add_f", swaps |-> 0]
  /\ step' = Before(runs.rnd_state)
  /\ UNCHANGED << pc, config_vars, sched_vars, m_number_of_immovable_people_per_group,
                  log, snap, drv, param, runs >>

\* a driver is called on an object that was never initialized
CallUninitialized ==
  /\ CallerTurn
  /\ pc = "constructed"
  /\ runs.calls < MaxCalls
  /\ \E alg \in {"anneal", "hill"}, N \in 0 .. MaxIterations, t \in Times :
       /\ runs.calls = 0 \/ N = runs.cur.N
       /\ param' = Parameter(CallerState(CallerWords(t)), runs.calls)
       /\ runs' = [calls |-> runs.calls + 1, seeded |-> TRUE, rnd_state |-> CallerWords(t),
                   prev |-> runs.cur,
                   cur |-> Run(alg, N, Parameter(CallerState(CallerWords(t)), runs.calls))]
       /\ drv' = [alg |-> alg, pc |-> "running", number_of_iterations |-> N, i |-> 0,
                  temp |-> IF alg = "anneal" THEN t_start ELSE NoTemp,
                  lambda |-> IF alg = "anneal" THEN Lambda(N) ELSE NoTemp, half |-> "m"]
       /\ last' = [op |-> alg, swaps |-> 0]
  /\ step' = NoStep
  /\ CallerObjectUnchanged

\* the evaluator was called on the caller's object s and returned ev
Evaluation(sex, s, args, ev, q) ==
  /\ m_day_group_person' = q.m
  /\ f_day_group_person' = q.f
  /\ curr_contacts' = q.cc
  /\ curr_num_contacts' = q.n
  /\ m_number_of_immovable_people_per_group' = q.imm_m
  /\ f_number_of_immovable_people_per_group' = q.imm_f
  /\ runs' = [runs EXCEPT !.seeded = TRUE, !.rnd_state = q.rnd_state]
  /\ pc' = IF ev.thrown THEN "thrown" ELSE "initialized"
  /\ step' = [op |-> "eval_" \o sex, trace |-> << EvalEv(sex, args, ev.delta, Sched(s)) >>,
              before |-> s, temp |-> NoTemp, outcome |-> IF ev.thrown THEN "thrown" ELSE "ok"]
  /\ last' = [op |-> "eval_" \o sex, swaps |-> 0]

\* the caller's call of an evaluator with legal arguments
Evaluate(sex, immvec, K) ==
  /\ Setup
  /\ pc = "initialized"
  /\ \E day \in 1 .. (number_of_days - 1), g1, g2 \in Range(number_of_groups),
        s1, s2 \in Range(K), t \in Times :
       /\ LegalSwap(immvec, K, day, g1, s1, g2, s2)
       /\ Evaluation(sex, CallerState(CallerWords(t)), << day, g1, s1, g2, s2 >>,
                     EvalOf(sex, Current, day, g1, s1, g2, s2),
                     AfterEvaluation(CallerState(CallerWords(t)), sex, day, g1, s1, g2, s2))
  /\ UNCHANGED << config_vars, log, snap, drv, param >>

EvaluateMale ==
  Evaluate("m", m_number_of_immovable_people_per_group, number_of_males_per_group)

EvaluateFemale ==
  Evaluate("f", f_number_of_immovable_people_per_group, number_of_females_per_group)

\* the program used within the contract
DriverNext ==
  \/ DriverInitialize
  \/ DriverAddMales
  \/ DriverAddFemales
  \/ EvaluateMale
  \/ EvaluateFemale
  \/ CallAnneal
  \/ CallHill
  \/ AnnealIteration
  \/ HillMaleIteration
  \/ HillFemaleIteration
  \/ Return

DriverSpec == Init /\ [][DriverNext]_vars

\* the driver call in progress executes its next statement: the loop
\* condition and an iteration, or the loop exit.  Every such statement
\* changes the control state drv of the call (i, half, temp or pc).
DriverAdvances ==
  /\ drv.pc = "running"
  /\ pc = "initialized"
  /\ \E q \in {"running", "returned", "thrown", "crashed", "undefined"},
        i \in {drv.i, drv.i + 1}, half \in {"m", "f"}, cooled \in BOOLEAN :
       /\ drv' = [drv EXCEPT !.pc = q, !.i = i, !.half = half,
                             !.temp = IF cooled /\ drv.alg = "anneal"
                                      THEN Cooled(drv.temp, drv.lambda) ELSE @]
       /\ drv' # drv

\* a driver that has been entered runs: its loop is straight-line code
\* between the call and the return, so its next statement is eventually
\* executed
DriverFairSpec == DriverSpec /\ WF_drv(DriverAdvances)

\* the program used by a caller that breaks the contract
MisuseNext ==
  \/ DriverInitialize
  \/ MisusedAddMales
  \/ MisusedAddFemales
  \/ CallAnneal
  \/ CallHill
  \/ CallUninitialized
  \/ AnnealIteration
  \/ HillMaleIteration
  \/ HillFemaleIteration
  \/ UninitializedIteration
  \/ Return

MisuseSpec == Init /\ [][MisuseNext]_vars

(***************************************************************************)
(* Scenario E2 of the specification: the evaluator as a function of the    *)
(* state.  initialize(2, 2, 0, 2) hands std::shuffle a range that starts   *)
(* past the end of the four male ids (see ShuffleUndefined), so the states *)
(* of the scenario are enumerated here: for every arrangement of day 1,    *)
(* the schedules as the fill loops of initialize write them and the        *)
(* matrix and score as its contact pass computes them.                     *)
(***************************************************************************)
E2 == [G |-> 2, M |-> 2, F |-> 0, D |-> 2]

\* the arrangements of the male ids on day 1: every permutation
E2Arrangements == ShuffleOutcomes(create_male_numbers_vector(E2.G * E2.M), 0)

\* the schedules initialize fills from the male vector v on day 1
E2Males(v) ==
  [day \in Range(E2.D) |->
     FillDay(IF day = 0 THEN create_male_numbers_vector(E2.G * E2.M) ELSE v, E2.G, E2.M)]

E2Females == [day \in Range(E2.D) |-> FillDay(EmptyVec, E2.G, E2.F)]

\* the object with the schedule m and the result r of the contact pass
E2State(m, r) ==
  /\ m_day_group_person = m
  /\ f_day_group_person = E2Females
  /\ curr_contacts = r.cc
  /\ curr_num_contacts = r.n
  /\ snap = [m |-> m, f |-> E2Females, cc |-> r.cc, n |-> r.n]

E2Init ==
  /\ pc = "initialized"
  /\ number_of_groups = E2.G
  /\ number_of_males_per_group = E2.M
  /\ number_of_females_per_group = E2.F
  /\ number_of_days = E2.D
  /\ \E v \in E2Arrangements :
       E2State(E2Males(v), ContactPass(E2Males(v), E2Females, E2.G, E2.M, E2.F, E2.D))
  /\ m_number_of_immovable_people_per_group = [g \in Range(E2.G) |-> 0]
  /\ f_number_of_immovable_people_per_group = [g \in Range(E2.G) |-> 0]
  /\ log = << >>
  /\ last = [op |-> "initialize", swaps |-> 0]
  /\ drv = NoCall
  /\ param = NoState
  /\ step = NoStep
  /\ runs = NoRuns

\* the caller asks contact_delta_of_swap_m about one swap
E2Next == EvaluateMale

E2Spec == E2Init /\ [][E2Next]_vars

(***************************************************************************)
(* The generator on its own: the words of a State from its construction    *)
(* on, through successive calls of xorshift128p.                           *)
(***************************************************************************)
MaxDraws == 24

\* values of std::time(0) as a uint64_t: the clock values of the model and
\* the corners of the 64-bit range
PrngSeeds ==
  { FromNat(t) : t \in Times }
    \cup { FromNat(0), FromNat(1), FromNat(SeedB),
           << 0, 0, 0, LimbBase \div 2 >>,
           << LimbBase - 1, LimbBase - 1, LimbBase - 1, LimbBase - 1 >> }

\* State::State() with std::time(0) = a
Seeded(a) == [a |-> a, b |-> FromNat(SeedB)]

PrngInit ==
  /\ pc = "constructed"
  /\ number_of_groups = 0
  /\ number_of_males_per_group = 0
  /\ number_of_females_per_group = 0
  /\ number_of_days = 0
  /\ m_day_group_person = EmptyVec
  /\ f_day_group_person = EmptyVec
  /\ curr_contacts = EmptyVec
  /\ curr_num_contacts = 0
  /\ m_number_of_immovable_people_per_group = EmptyVec
  /\ f_number_of_immovable_people_per_group = EmptyVec
  /\ log = << >>
  /\ snap = [m |-> EmptyVec, f |-> EmptyVec, cc |-> EmptyVec, n |-> 0]
  /\ last = [op |-> "construct", swaps |-> 0]
  /\ drv = NoCall
  /\ param = NoState
  /\ \E a \in PrngSeeds :
       /\ runs = [NoRuns EXCEPT !.seeded = TRUE, !.rnd_state = Seeded(a)]
       /\ step = [NoStep EXCEPT !.before.rnd_state = Seeded(a)]

\* the call gave r = [state, value]
Drawn(r) ==
  /\ runs' = [runs EXCEPT !.rnd_state = r.state]
  /\ step' = [step EXCEPT !.op = "draw",
                          !.trace = Append(@, [DrawEv("none", "word", 0, 0) EXCEPT !.word = r.value])]

\* one call of xorshift128p(&rnd_state)
PrngDraw ==
  /\ Len(step.trace) < MaxDraws
  /\ Drawn(xorshift128p(runs.rnd_state))
  /\ UNCHANGED << pc, config_vars, sched_vars, imm_vars, log, snap, last, drv, param >>

PrngNext == PrngDraw

PrngSpec == PrngInit /\ [][PrngNext]_vars

(***************************************************************************)
(* Vocabulary of the properties: the schedule read from scratch.           *)
(***************************************************************************)
TotalMales == number_of_groups * number_of_males_per_group

TotalPeople == number_of_groups * (number_of_males_per_group + number_of_females_per_group)

Persons == Range(TotalPeople)

\* the object holds a complete state: initialize has returned and no
\* swap is half done
Quiescent == pc \in {"initialized", "undoing", "crashed"}

\* the people (of both sexes) in group g on day d of the schedules of st
Members(st, d, g) ==
  { st.m[d][g][s] : s \in Range(number_of_males_per_group) }
    \cup { st.f[d][g][s] : s \in Range(number_of_females_per_group) }

\* the number of days on which i and j are in the same group
DaysTogether(st, i, j) ==
  Cardinality({ d \in Range(number_of_days) :
                  \E g \in Range(number_of_groups) :
                    i \in Members(st, d, g) /\ j \in Members(st, d, g) })

\* the number of unordered pairs of distinct persons who share a group on
\* at least one day
BruteScore(st) ==
  Cardinality({ pair \in Persons \X Persons :
                  pair[1] < pair[2] /\ DaysTogether(st, pair[1], pair[2]) >= 1 })

\* the schedule with the occupants of two slots exchanged, nothing else
Exchanged(sched, day, g1, s1, g2, s2) ==
  [d \in DOMAIN sched |-> [g \in DOMAIN sched[d] |-> [s \in DOMAIN sched[d][g] |->
     IF d = day /\ g = g1 /\ s = s1 THEN sched[day][g2][s2]
     ELSE IF d = day /\ g = g2 /\ s = s2 THEN sched[day][g1][s1]
     ELSE sched[d][g][s]]]]

\* the legal argument tuples of a male / female swap in the current state
LegalMaleArgs ==
  { a \in (1 .. (number_of_days - 1)) \X Range(number_of_groups) \X Range(number_of_males_per_group)
            \X Range(number_of_groups) \X Range(number_of_males_per_group) :
      LegalSwap(m_number_of_immovable_people_per_group, number_of_males_per_group,
                a[1], a[2], a[3], a[4], a[5]) }

LegalFemaleArgs ==
  { a \in (1 .. (number_of_days - 1)) \X Range(number_of_groups) \X Range(number_of_females_per_group)
            \X Range(number_of_groups) \X Range(number_of_females_per_group) :
      LegalSwap(f_number_of_immovable_people_per_group, number_of_females_per_group,
                a[1], a[2], a[3], a[4], a[5]) }

DeltaM(a) ==
  contact_delta_of_swap_m(m_day_group_person, curr_contacts, number_of_males_per_group,
                          a[1], a[2], a[3], a[4], a[5])

DeltaF(a) ==
  contact_delta_of_swap_f(f_day_group_person, curr_contacts, number_of_females_per_group,
                          a[1], a[2], a[3], a[4], a[5])

SwappedM(st, a) == AfterSwapM(st, a[1], a[2], a[3], a[4], a[5])

SwappedF(st, a) == AfterSwapF(st, a[1], a[2], a[3], a[4], a[5])

Args(e) == << e.day, e.g1, e.s1, e.g2, e.s2 >>

\* the newest swap of the log
Newest == log[Len(log)]

(***************************************************************************)
(* C1  Delta correctness.  In every reachable state and for every legal    *)
(* argument tuple of either sex, the evaluator returns a delta (it does    *)
(* not throw), the applier with the same arguments completes, and the      *)
(* score after the swap is the score before plus that delta.               *)
(***************************************************************************)
C1_DeltaCorrectness ==
  pc \in {"initialized", "undoing"} =>
    /\ \A a \in LegalMaleArgs :
         /\ ~DeltaM(a).thrown
         /\ ~SwappedM(Current, a).thrown
         /\ SwappedM(Current, a).st.n = curr_num_contacts + DeltaM(a).delta
    /\ \A a \in LegalFemaleArgs :
         /\ ~DeltaF(a).thrown
         /\ ~SwappedF(Current, a).thrown
         /\ SwappedF(Current, a).st.n = curr_num_contacts + DeltaF(a).delta

\* a swap_m between two groups has been executed on the state initialize
\* left, the evaluator had predicted a non-zero delta for it, and the
\* score moved by exactly that delta
C1_Witness ==
  /\ pc = "initialized"
  /\ last.op = "swap_m"
  /\ Len(log) = 1
  /\ Newest.g1 # Newest.g2
  /\ LET ev == contact_delta_of_swap_m(snap.m, snap.cc, number_of_males_per_group,
                                       Newest.day, Newest.g1, Newest.s1, Newest.g2, Newest.s2)
     IN  /\ ev.delta # 0
         /\ snap.m = Exchanged(m_day_group_person, Newest.day, Newest.g1, Newest.s1, Newest.g2, Newest.s2)
         /\ curr_num_contacts = snap.n + ev.delta

(***************************************************************************)
(* C2  Brute-force agreement.  For every legal argument tuple of either    *)
(* sex, the delta the evaluator returns equals the score recomputed from   *)
(* scratch on the schedule after the exchange minus the score recomputed   *)
(* from scratch before it, the score being the number of unordered pairs   *)
(* of distinct persons (of any sex) who share a group on some day.         *)
(***************************************************************************)
C2_BruteForceAgreement ==
  pc \in {"initialized", "undoing"} =>
    /\ \A a \in LegalMaleArgs :
         /\ ~DeltaM(a).thrown
         /\ DeltaM(a).delta =
              BruteScore([Current EXCEPT !.m = Exchanged(Current.m, a[1], a[2], a[3], a[4], a[5])])
                - BruteScore(Current)
    /\ \A a \in LegalFemaleArgs :
         /\ ~DeltaF(a).thrown
         /\ DeltaF(a).delta =
              BruteScore([Current EXCEPT !.f = Exchanged(Current.f, a[1], a[2], a[3], a[4], a[5])])
                - BruteScore(Current)

(***************************************************************************)
(* C3  Co-attendance matrix truth.  At every quiescent point, for all      *)
(* persons i # j of any sex, curr_contacts[i][j] is the number of days on  *)
(* which i and j are in the same group in the current schedule.            *)
(***************************************************************************)
C3_MatrixTruth ==
  Quiescent =>
    \A i, j \in Persons :
      i # j => curr_contacts[i][j] = DaysTogether(Current, i, j)

(***************************************************************************)
(* C4  Invariant S1.  After initialize and after every swap, the score     *)
(* curr_num_contacts is the number of unordered pairs {i, j}, i < j, with  *)
(* curr_contacts[i][j] >= 1.                                               *)
(***************************************************************************)
MatrixScore(cc) ==
  Cardinality({ pair \in Persons \X Persons : pair[1] < pair[2] /\ cc[pair[1]][pair[2]] >= 1 })

C4_ScoreConsistency == Quiescent => curr_num_contacts = MatrixScore(curr_contacts)

\* a swap between two groups has been executed and has moved the score
C4_Witness ==
  /\ pc = "initialized"
  /\ log # << >>
  /\ Newest.g1 # Newest.g2
  /\ curr_num_contacts # snap.n
  /\ curr_num_contacts = MatrixScore(curr_contacts)

(***************************************************************************)
(* C5  Invariant P1.  After initialize and after every swap, on every day  *)
(* the male slots hold each id 0..Tm-1 exactly once and the female slots   *)
(* hold each id Tm..T-1 exactly once.                                      *)
(***************************************************************************)
SlotsHolding(day_sched, K, id) ==
  { gs \in Range(number_of_groups) \X Range(K) : day_sched[gs[1]][gs[2]] = id }

C5_PerDayPermutation ==
  Quiescent =>
    \A d \in Range(number_of_days) :
      /\ \A id \in Range(TotalMales) :
           Cardinality(SlotsHolding(m_day_group_person[d], number_of_males_per_group, id)) = 1
      /\ \A id \in Persons \ Range(TotalMales) :
           Cardinality(SlotsHolding(f_day_group_person[d], number_of_females_per_group, id)) = 1
      /\ \A gs \in Range(number_of_groups) \X Range(number_of_males_per_group) :
           m_day_group_person[d][gs[1]][gs[2]] \in Range(TotalMales)
      /\ \A gs \in Range(number_of_groups) \X Range(number_of_females_per_group) :
           f_day_group_person[d][gs[1]][gs[2]] \in Persons \ Range(TotalMales)

\* swaps of both sexes have been executed on a day whose initial
\* arrangement was shuffled, and the schedule differs from the initial one
C5_Witness ==
  /\ pc = "initialized"
  /\ Len(log) = 2
  /\ m_day_group_person # snap.m
  /\ f_day_group_person # snap.f
  /\ snap.f[1] # snap.f[0]

(***************************************************************************)
(* C6  P3 established by configuration.  Once initialize has returned and  *)
(* both immovable setters have been called (with vectors whose elements    *)
(* lie in 0..M, resp. 0..F), on every day d every male slot s < imm_m[g]   *)
(* of every group g holds the id it holds on day 0, and every female slot  *)
(* s < imm_f[g] likewise.                                                  *)
(***************************************************************************)
Configured ==
  /\ pc = "initialized"
  /\ log = << >>
  /\ last.op \in {"add_m", "add_f"}
  /\ DOMAIN m_number_of_immovable_people_per_group = Range(number_of_groups)
  /\ DOMAIN f_number_of_immovable_people_per_group = Range(number_of_groups)

C6_FixityByConfiguration ==
  Configured =>
    \A d \in Range(number_of_days), g \in Range(number_of_groups) :
      /\ \A s \in Range(m_number_of_immovable_people_per_group[g]) :
           m_day_group_person[d][g][s] = m_day_group_person[0][g][s]
      /\ \A s \in Range(f_number_of_immovable_people_per_group[g]) :
           f_day_group_person[d][g][s] = f_day_group_person[0][g][s]

(***************************************************************************)
(* C7  Swap endpoints respect immovability.  Given D >= 2 and              *)
(* imm_m[g] < M, imm_f[g] < F for all g: a hill-climb or annealing step    *)
(* completes, every swap it executed has 1 <= day <= D-1 and both slots in *)
(* [imm[g], K-1] of their groups; and day 0 of both schedules and every    *)
(* immovable slot of every day hold the ids they held when initialize      *)
(* returned.                                                               *)
(***************************************************************************)
StepOps == {"hill_m", "hill_f", "anneal"}

MovablePeopleEverywhere ==
  /\ number_of_days >= 2
  /\ DOMAIN m_number_of_immovable_people_per_group = Range(number_of_groups)
  /\ DOMAIN f_number_of_immovable_people_per_group = Range(number_of_groups)
  /\ \A g \in Range(number_of_groups) :
       /\ m_number_of_immovable_people_per_group[g] < number_of_males_per_group
       /\ f_number_of_immovable_people_per_group[g] < number_of_females_per_group

\* the swaps the last operation executed
LastSwaps == { log[k] : k \in (Len(log) - last.swaps + 1) .. Len(log) }

RespectsImmovability(e) ==
  IF e.sex = "m"
  THEN LegalSwap(m_number_of_immovable_people_per_group, number_of_males_per_group,
                 e.day, e.g1, e.s1, e.g2, e.s2)
  ELSE LegalSwap(f_number_of_immovable_people_per_group, number_of_females_per_group,
                 e.day, e.g1, e.s1, e.g2, e.s2)

C7_EndpointsRespectImmovability ==
  (pc \notin {"constructed", "aborted"} /\ MovablePeopleEverywhere) =>
    /\ last.op \in StepOps =>
         /\ pc = "initialized"
         /\ \A e \in LastSwaps : RespectsImmovability(e)
    /\ m_day_group_person[0] = snap.m[0]
    /\ f_day_group_person[0] = snap.f[0]
    /\ \A d \in Range(number_of_days), g \in Range(number_of_groups) :
         /\ \A s \in Range(m_number_of_immovable_people_per_group[g]) :
              m_day_group_person[d][g][s] = snap.m[d][g][s]
         /\ \A s \in Range(f_number_of_immovable_people_per_group[g]) :
              f_day_group_person[d][g][s] = snap.f[d][g][s]

\* an annealing step has executed a male and a female swap between groups
\* while a group had an immovable male, and the schedules have changed
C7_Witness ==
  /\ pc = "initialized"
  /\ MovablePeopleEverywhere
  /\ last = [op |-> "anneal", swaps |-> 2]
  /\ \E g \in Range(number_of_groups) : m_number_of_immovable_people_per_group[g] >= 1
  /\ \A e \in LastSwaps : e.g1 # e.g2 /\ RespectsImmovability(e)
  /\ m_day_group_person # snap.m
  /\ f_day_group_person # snap.f

(***************************************************************************)
(* C8  Symmetry.  After initialize and after any sequence of swaps,        *)
(* curr_contacts[i][j] = curr_contacts[j][i] for all persons i, j.         *)
(***************************************************************************)
C8_Symmetry ==
  Quiescent =>
    \A i, j \in Persons : curr_contacts[i][j] = curr_contacts[j][i]

\* a swap between two groups has rewritten entries of the matrix
C8_Witness ==
  /\ pc = "initialized"
  /\ log # << >>
  /\ Newest.g1 # Newest.g2
  /\ \E i, j \in Persons :
       /\ i # j
       /\ curr_contacts[i][j] # snap.cc[i][j]
       /\ curr_contacts[i][j] = curr_contacts[j][i]

(***************************************************************************)
(* C9  Swap reversal.  Applying k >= 1 legal swaps of either sex and then  *)
(* the same swaps, with the same arguments, newest first, restores both    *)
(* schedules, every entry of curr_contacts and curr_num_contacts.  The     *)
(* first conjunct is the reversal the model has run (k = last.swaps swaps  *)
(* executed since initialize, then re-applied newest first); the other     *)
(* two are the case k = 1 for every legal argument tuple in every          *)
(* reachable state: the same swap applied twice gives the state back.      *)
(***************************************************************************)
C9_SwapReversal ==
  /\ (last.op = "undo" /\ log = << >>) => (pc = "initialized" /\ Current = snap)
  /\ pc = "initialized" =>
       \A a \in LegalMaleArgs :
         /\ ~SwappedM(Current, a).thrown
         /\ SwappedM(SwappedM(Current, a).st, a) = [st |-> Current, thrown |-> FALSE]
  /\ pc = "initialized" =>
       \A a \in LegalFemaleArgs :
         /\ ~SwappedF(Current, a).thrown
         /\ SwappedF(SwappedF(Current, a).st, a) = [st |-> Current, thrown |-> FALSE]

\* two swaps have been executed and then re-applied newest first, and the
\* state is the one initialize left; at least one cross-group swap from
\* this state changes the matrix and the score
C9_Witness ==
  /\ pc = "initialized"
  /\ last = [op |-> "undo", swaps |-> 2]
  /\ log = << >>
  /\ Current = snap
  /\ \E a \in LegalMaleArgs :
       /\ SwappedM(Current, a).st.cc # curr_contacts
       /\ SwappedM(Current, a).st.n # curr_num_contacts
       /\ SwappedM(SwappedM(Current, a).st, a).st = Current

(***************************************************************************)
(* C10  Within-group no-op.  For any day, either sex, any group g and any  *)
(* slots s1, s2, with g1 = g2 = g: the evaluator returns 0; the applier    *)
(* leaves every entry of curr_contacts, curr_num_contacts and the other    *)
(* sex's schedule unchanged and changes the schedule only by exchanging    *)
(* the occupants of the two slots; with s1 = s2 it changes nothing.        *)
(***************************************************************************)
C10_WithinGroupNoOp ==
  pc \in {"initialized", "undoing"} =>
    \A day \in Range(number_of_days), g \in Range(number_of_groups) :
      /\ \A s1, s2 \in Range(number_of_males_per_group) :
           /\ DeltaM(<< day, g, s1, g, s2 >>) = [delta |-> 0, thrown |-> FALSE]
           /\ AfterSwapM(Current, day, g, s1, g, s2) =
                [st |-> [Current EXCEPT !.m = Exchanged(m_day_group_person, day, g, s1, g, s2)],
                 thrown |-> FALSE]
           /\ s1 = s2 => AfterSwapM(Current, day, g, s1, g, s2).st = Current
      /\ \A s1, s2 \in Range(number_of_females_per_group) :
           /\ DeltaF(<< day, g, s1, g, s2 >>) = [delta |-> 0, thrown |-> FALSE]
           /\ AfterSwapF(Current, day, g, s1, g, s2) =
                [st |-> [Current EXCEPT !.f = Exchanged(f_day_group_person, day, g, s1, g, s2)],
                 thrown |-> FALSE]
           /\ s1 = s2 => AfterSwapF(Current, day, g, s1, g, s2).st = Current

\* swap_m has exchanged two different slots of one group: the two
\* occupants have changed places, the matrix and the score have not moved
C10_Witness ==
  /\ pc = "initialized"
  /\ last.op = "swap_m"
  /\ Len(log) = 1
  /\ Newest.g1 = Newest.g2
  /\ Newest.s1 # Newest.s2
  /\ m_day_group_person # snap.m
  /\ m_day_group_person = Exchanged(snap.m, Newest.day, Newest.g1, Newest.s1, Newest.g2, Newest.s2)
  /\ curr_contacts = snap.cc
  /\ curr_num_contacts = snap.n

(***************************************************************************)
(* Vocabulary of the properties of the drivers                             *)
(***************************************************************************)
HillOps == {"hill_m", "hill_f"}

\* the events of the last step that satisfy a test
Events(test(_)) == { k \in 1 .. Len(step.trace) : test(step.trace[k]) }

IsSwap(e) == e.kind = "swap"

IsEval(e) == e.kind = "eval"

IsDraw(e) == e.kind = "draw"

(***************************************************************************)
(* C11  Monotone hill-climb: along a run of                                *)
(* run_random_hillclimbing_algorithm, whichever of the two hill-climbing   *)
(* steps was the last one, and however it ended, it did not leave          *)
(* curr_num_contacts below the value it found.                             *)
(***************************************************************************)
C11_MonotoneHillClimb ==
  (drv.alg = "hill" /\ step.op \in HillOps) => param.n >= step.before.n

\* a hill-climbing step of the driver applied a swap that raised the score,
\* after an earlier step of the same run had looked at a candidate
C11_Witness ==
  /\ drv.alg = "hill" /\ step.op \in HillOps
  /\ Events(IsSwap) # {}
  /\ param.n > step.before.n

(***************************************************************************)
(* C12  Evaluator purity: right after a call of contact_delta_of_swap_m    *)
(* or contact_delta_of_swap_f with legal arguments, both schedules,        *)
(* curr_contacts, curr_num_contacts, both immovable vectors and the two    *)
(* generator words of the object are what they were before the call.       *)
(***************************************************************************)
EvalOps == {"eval_m", "eval_f"}

C12_EvaluatorPurity ==
  last.op \in EvalOps => CallerState(runs.rnd_state) = step.before

\* an evaluator was called with legal arguments for a swap between two
\* groups that would change the score
C12_Witness ==
  /\ last.op \in EvalOps
  /\ step.op = last.op
  /\ step.trace[1].args[2] # step.trace[1].args[4]
  /\ step.trace[1].delta # 0
  /\ step.before.rnd_state = SeededWords(ClockStart + 1)

(***************************************************************************)
(* C13  Boundary D == 1: when the object was initialized with one day, a   *)
(* run of the annealing driver, whatever its number of iterations, goes on *)
(* or has returned normally, has called no swap, and holds the score that  *)
(* initialize set.                                                         *)
(***************************************************************************)
C13_SingleDayRunCompletes ==
  (drv.alg = "anneal" /\ pc = "initialized" /\ number_of_days = 1) =>
    /\ drv.pc \in {"running", "returned"}
    /\ Events(IsSwap) = {}
    /\ param.n = snap.n

(***************************************************************************)
(* C14  Fully immovable group: no step of a driver draws a slot with the   *)
(* modulus M - imm[g] (or F - imm[g]) equal to 0, also when the immovable  *)
(* vector given to the setter has imm[g] = M (or F) for some group g.      *)
(***************************************************************************)
SlotUses == {"slot1", "slot2"}

IsSlotDraw(e) == e.kind = "draw" /\ e.use \in SlotUses

C14_NoSlotDrawWithModulusZero ==
  \A k \in Events(IsSlotDraw) : step.trace[k].args[1] # 0

(***************************************************************************)
(* C15  Caller-contract violations fail fast: a setter called with a       *)
(* vector of the wrong length or with an entry above the group size, or    *)
(* called before initialize, ends in an error and leaves the object as it  *)
(* was; a driver step on an object that was never initialized ends in an   *)
(* error; and no step uses a slot index outside its group.                 *)
(***************************************************************************)
MisusedOps == {"misused_add_m", "misused_add_f"}

C15_ContractViolationsFailFast ==
  /\ last.op \in MisusedOps =>
       /\ pc = "thrown"
       /\ CallerState(step.before.rnd_state) = step.before
  /\ (drv.pc # "idle" /\ pc = "constructed" /\ drv.i < drv.number_of_iterations) =>
       drv.pc \in {"running", "thrown"}
  /\ step.outcome # "undefined"

(***************************************************************************)
(* C16  Two independent candidate moves: in an annealing step that         *)
(* evaluates both candidates, each candidate has its own day draw, so the  *)
(* step makes two day draws.                                               *)
(***************************************************************************)
IsDayDraw(e) == e.kind = "draw" /\ e.use = "day"

C16_EachCandidateDrawsItsDay ==
  (step.op = "anneal" /\ Cardinality(Events(IsEval)) = 2) =>
    Cardinality(Events(IsDayDraw)) = 2

(***************************************************************************)
(* C17  Fixed order within an annealing step: every draw, evaluation and   *)
(* swap of the male candidate comes before every draw, evaluation and swap *)
(* of the female candidate; the female evaluator is called on the state    *)
(* the male candidate left (the state before the step if the male swap was *)
(* not applied, and that state after swap_m otherwise); both acceptance    *)
(* tests use the temperature the step was given; and the driver divides    *)
(* temp by lambda once for every completed iteration, so that iteration    *)
(* i + 1 is given t_start / lambda^i.                                      *)
(***************************************************************************)
IsMale(e) == e.sex = "m"

IsFemale(e) == e.sex = "f"

IsMaleSwap(e) == e.kind = "swap" /\ e.sex = "m"

IsFemaleEval(e) == e.kind = "eval" /\ e.sex = "f"

IsAcceptanceDraw(e) == e.kind = "draw" /\ e.use = "u"

\* the schedule state the male candidate of the last step left
MaleOutcome ==
  IF Events(IsMaleSwap) = {} THEN Sched(step.before)
  ELSE SwappedM(Sched(step.before), step.trace[CHOOSE k \in Events(IsMaleSwap) : TRUE].args).st

RECURSIVE TempAfter(_)
TempAfter(i) == IF i = 0 THEN t_start ELSE Cooled(TempAfter(i - 1), drv.lambda)

C17_FixedOrder ==
  /\ step.op = "anneal" =>
       /\ \A i \in Events(IsMale), j \in Events(IsFemale) : i < j
       /\ \A j \in Events(IsFemaleEval) : step.trace[j].on = MaleOutcome
       /\ \A k \in Events(IsAcceptanceDraw) : step.trace[k].temp = step.temp
       /\ step.temp = TempAfter(IF step.outcome = "ok" THEN drv.i - 1 ELSE drv.i)
  /\ (drv.alg = "anneal" /\ pc = "initialized") =>
       /\ drv.lambda = Lambda(drv.number_of_iterations)
       /\ drv.temp = TempAfter(drv.i)

\* the second iteration of an annealing run applied the male swap and then
\* evaluated a female candidate, for which it drew an acceptance word
C17_Witness ==
  /\ step.op = "anneal"
  /\ drv.i = 2
  /\ Events(IsMaleSwap) # {}
  /\ \E j \in Events(IsFemaleEval) : step.trace[j].on # Sched(step.before)
  /\ \E k \in Events(IsAcceptanceDraw) : step.trace[k].sex = "f"

(***************************************************************************)
(* C18  Acceptance rule: in an annealing step, an evaluation that returned *)
(* delta >= 0 is followed at once by the swap call of that candidate with  *)
(* the evaluated arguments, without an acceptance draw; an evaluation that *)
(* returned delta < 0 is followed by the draw of one new word, and the     *)
(* swap is called with the evaluated arguments when that word, as a        *)
(* fraction of 2^64, is below exp(delta / temp), and is not called for     *)
(* that candidate otherwise.  No swap is called without its evaluation.    *)
(***************************************************************************)
IsSwapOf(e, sex, args) == e.kind = "swap" /\ e.sex = sex /\ e.args = args

\* the k-th event of the last step is the swap call for the evaluation ev
SwapFollows(k, ev) == k <= Len(step.trace) /\ IsSwapOf(step.trace[k], ev.sex, ev.args)

\* the evaluator call at event k threw
EvaluatorThrew(k) == step.outcome = "thrown" /\ k = Len(step.trace)

\* the decision that follows the evaluation at event k is the one of the rule
RuleFollowed(k) ==
  LET ev == step.trace[k]
      u == step.trace[k + 1]
  IN  IF ev.delta >= 0 THEN SwapFollows(k + 1, ev)
      ELSE /\ k + 1 <= Len(step.trace)
           /\ IsAcceptanceDraw(u) /\ u.sex = ev.sex /\ u.temp = step.temp
           /\ IF Top30(u.word) < ExpTable(step.temp)[0 - ev.delta]
              THEN SwapFollows(k + 2, ev)
              ELSE \A j \in Events(IsSwap) : step.trace[j].sex # ev.sex

C18_AcceptanceRule ==
  step.op = "anneal" =>
    /\ \A k \in Events(IsEval) : EvaluatorThrew(k) \/ RuleFollowed(k)
    /\ \A j \in Events(IsSwap) :
         \E k \in Events(IsEval) :
           k < j /\ step.trace[k].sex = step.trace[j].sex /\ step.trace[k].args = step.trace[j].args

\* an annealing step declined one candidate of negative delta after drawing
\* its acceptance word, and called the swap of the other candidate
C18_Witness ==
  /\ step.op = "anneal"
  /\ \E k \in Events(IsAcceptanceDraw) : ~step.trace[k].args[1]
  /\ Events(IsSwap) # {}

(***************************************************************************)
(* C19  Determinism: when the annealing driver is run twice with the same  *)
(* number of iterations on identical State values (schedules, matrix,      *)
(* score, immovable vectors and both generator words), the second run is   *)
(* in the state the first run was in after every iteration it has          *)
(* completed, and so ends with the same schedules and score.               *)
(***************************************************************************)
SameRunTwice ==
  /\ runs.calls = 2
  /\ runs.prev.alg = "anneal" /\ runs.cur.alg = "anneal"
  /\ runs.prev.N = runs.cur.N
  /\ runs.prev.start = runs.cur.start

AnnealReturned == drv.alg = "anneal" /\ drv.pc = "returned" /\ pc = "initialized"

C20_CallerHoldsResult == AnnealReturned => Current = Sched(param)

(***************************************************************************)
(* C21  Bounded run.  For a legal configuration (D >= 2, imm_m[g] < M and  *)
(* imm_f[g] < F for all g), run_simulated_annealing_algorithm(s, N)        *)
(* terminates after exactly N annealing steps: every step it runs returns  *)
(* (no throw, no crash) having evaluated one male and one female           *)
(* candidate, the driver returns only when N steps are complete, and once  *)
(* entered it does return.                                                 *)
(***************************************************************************)
LegalAnnealRun == drv.alg = "anneal" /\ pc = "initialized" /\ MovablePeopleEverywhere

\* the number of evaluator calls for the candidate of sex in the last step
Candidates(sex) ==
  Cardinality({ k \in 1 .. Len(step.trace) : IsEval(step.trace[k]) /\ step.trace[k].sex = sex })

C21_StepsAndExit ==
  LegalAnnealRun =>
    /\ drv.pc \in {"running", "returned"}
    /\ drv.i <= drv.number_of_iterations
    /\ Len(runs.cur.after) = drv.i
    /\ drv.pc = "returned" => drv.i = drv.number_of_iterations
    /\ step.op = "anneal" =>
         /\ step.outcome = "ok"
         /\ Candidates("m") = 1
         /\ Candidates("f") = 1

C21_BoundedRun ==
  /\ []C21_StepsAndExit
  /\ (LegalAnnealRun /\ drv.pc = "running") ~> (drv.pc = "returned")

\* an annealing run of two iterations on a legal configuration has
\* returned, and its second step applied a swap
C21_Witness ==
  /\ LegalAnnealRun
  /\ drv.pc = "returned"
  /\ drv.number_of_iterations = 2
  /\ Len(runs.cur.after) = 2
  /\ step.op = "anneal"
  /\ \E k \in 1 .. Len(step.trace) : IsSwap(step.trace[k])

(***************************************************************************)
(* C22  Matrix bounds.  After initialize and after any sequence of swaps,  *)
(* every entry of curr_contacts, the diagonal included, lies in 0..D; no   *)
(* entry of the unsigned matrix wraps below zero (a wrapped entry is a     *)
(* negative representative).                                               *)
(***************************************************************************)
C22_MatrixBounds ==
  Quiescent =>
    \A i, j \in Persons :
      /\ 0 <= curr_contacts[i][j]
      /\ curr_contacts[i][j] <= number_of_days

\* a swap between two groups has been executed; it took an entry from 1
\* down to 0, and the diagonal holds D
C22_Witness ==
  /\ pc = "initialized"
  /\ log # << >>
  /\ Newest.g1 # Newest.g2
  /\ \E i, j \in Persons : i # j /\ snap.cc[i][j] = 1 /\ curr_contacts[i][j] = 0
  /\ \A i \in Persons : curr_contacts[i][i] = number_of_days

(***************************************************************************)
(* C23  Score bounds.  In every reachable state                            *)
(* 0 <= curr_num_contacts <= T * (T - 1) / 2 with T = G * (M + F).         *)
(***************************************************************************)
MaxScore == (TotalPeople * (TotalPeople - 1)) \div 2

C23_ScoreBounds ==
  /\ 0 <= curr_num_contacts
  /\ pc \notin {"constructed", "aborted"} => curr_num_contacts <= MaxScore

\* swaps have been executed since initialize and have moved the score,
\* which is positive and below the bound
C23_Witness ==
  /\ pc = "initialized"
  /\ log # << >>
  /\ curr_num_contacts # snap.n
  /\ 0 < curr_num_contacts
  /\ curr_num_contacts < MaxScore

(***************************************************************************)
(* C24  Scenario E2 (single sex).  For G = 2, M = 2, F = 0, D = 2 with no  *)
(* immovables, for every arrangement of day 1 that is a permutation of     *)
(* {0, 1, 2, 3} and every swap (day 1, g1, s1, g2, s2),                    *)
(* contact_delta_of_swap_m returns the number of distinct co-attending     *)
(* pairs recomputed from the schedule after the swap minus that number     *)
(* recomputed before it.  The first conjunct is the call the model has     *)
(* made, the second every call it could make in the state.                 *)
(***************************************************************************)
BruteDeltaM(st, a) ==
  BruteScore([st EXCEPT !.m = Exchanged(st.m, a[1], a[2], a[3], a[4], a[5])]) - BruteScore(st)

Transposed(v, i, j) ==
  [k \in DOMAIN v |-> IF k = i THEN v[j] ELSE IF k = j THEN v[i] ELSE v[k]]

\* the schedules with which initialize(cfg) can return
Returned(cfg) ==
  IF \/ ShuffleUndefined(cfg.G * cfg.M, MaleShuffleOffset, cfg.D)
     \/ ShuffleUndefined(cfg.G * cfg.F, FemaleShuffleOffset, cfg.D)
  THEN {}
  ELSE InitialSchedules(cfg)

C26_EveryArrangementPossible ==
  pc = "constructed" =>
    \A cfg \in Configs : \A d \in 1 .. (cfg.D - 1) :
      /\ \A i, j \in Range(cfg.G * cfg.M) :
           \E sch \in Returned(cfg) :
             sch.m[d] = FillDay(Transposed(create_male_numbers_vector(cfg.G * cfg.M), i, j),
                                cfg.G, cfg.M)
      /\ \A i, j \in Range(cfg.G * cfg.F) :
           \E sch \in Returned(cfg) :
             sch.f[d] = FillDay(Transposed(create_female_numbers_vector(cfg.G * cfg.F, cfg.G * cfg.M),
                                           i, j),
                                cfg.G, cfg.F)

(***************************************************************************)
(* C27  The generator state never degenerates.  Starting from the seed of  *)
(* the constructor (a any 64-bit value, b = 1234124124), after any number  *)
(* of calls of xorshift128p, all arithmetic modulo 2^64, the state (a, b)  *)
(* is not (0, 0).                                                          *)
(***************************************************************************)
C27_NeverAllZero == runs.seeded => runs.rnd_state # NoWords

\* the generator was seeded with a = 0 and has been called MaxDraws times;
\* the word a has been 0 and the state is not all zero
C27_Witness ==
  /\ step.before.rnd_state.a = FromNat(0)
  /\ step.op = "draw"
  /\ Len(step.trace) = MaxDraws
  /\ runs.rnd_state.a # FromNat(0)
  /\ runs.rnd_state # NoWords

(***************************************************************************)
(* C28  Postcondition of the contact pass.  Immediately after initialize,  *)
(* for all persons i # j, curr_contacts[i][j] is the number of days on     *)
(* which i and j share a group, and curr_num_contacts is the number of     *)
(* unordered pairs who share a group on at least one day, each pair        *)
(* counted once (same-sex pairs are visited in both orders and counted at  *)
(* the visit with a < b, male-female pairs are visited once).              *)
(***************************************************************************)
JustInitialized == pc = "initialized" /\ last.op = "initialize"

C28_ContactPassPostcondition ==
  JustInitialized =>
    /\ \A i, j \in Persons :
         i # j => curr_contacts[i][j] = DaysTogether(Current, i, j)
    /\ curr_num_contacts = BruteScore(Current)

\* initialize has returned with a shuffled day: a pair of males, a pair of
\* females and a male-female pair share a group on one day only, and
\* another pair on both days
C28_Witness ==
  /\ JustInitialized
  /\ number_of_females_per_group = 2
  /\ f_day_group_person[1] # f_day_group_person[0]
  /\ \E i, j \in Range(TotalMales) : i < j /\ curr_contacts[i][j] = 2
  /\ \E i, j \in Persons \ Range(TotalMales) : i < j /\ curr_contacts[i][j] = 1
  /\ \E i \in Range(TotalMales), j \in Persons \ Range(TotalMales) : curr_contacts[i][j] = 1
  /\ curr_num_contacts = BruteScore(Current)

(***************************************************************************)
(* C29  The "ASSUMPTION FALSE" guards never fire.  In every state reached  *)
(* from initialize by legal swaps and by hill-climb and annealing steps,   *)
(* no call of contact_delta_of_swap_m, swap_m or swap_f with legal         *)
(* arguments throws std::runtime_error: none that the model has made, and  *)
(* none that could be made in the state.                                   *)
(***************************************************************************)
C29_GuardsNeverFire ==
  /\ pc # "thrown"
  /\ pc \in {"initialized", "undoing"} =>
       /\ \A a \in LegalMaleArgs : ~DeltaM(a).thrown /\ ~SwappedM(Current, a).thrown
       /\ \A a \in LegalFemaleArgs : ~SwappedF(Current, a).thrown

\* an annealing step has executed a male and a female swap between groups;
\* two males and two females who share no day have a matrix entry of 0,
\* the value the guards test for
C29_Witness ==
  /\ pc = "initialized"
  /\ last = [op |-> "anneal", swaps |-> 2]
  /\ \A e \in LastSwaps : e.g1 # e.g2
  /\ \E i, j \in Range(TotalMales) : i # j /\ curr_contacts[i][j] = 0
  /\ \E i, j \in Persons \ Range(TotalMales) : i # j /\ curr_contacts[i][j] = 0

(***************************************************************************)
(* C30  A rejected candidate changes nothing but the generator.  When a    *)
(* hill-climb or annealing step does not call swap for a candidate, both   *)
(* schedules, curr_contacts and curr_num_contacts are the same before and  *)
(* after that candidate; after initialize the three are modified only      *)
(* inside swap_m and swap_f.  Stated on the last step of a driver: each    *)
(* evaluator call of the step saw the state the step started from with     *)
(* the swaps called before it applied, the step left the state it started  *)
(* from with the swaps it called applied, and a step without a swap call   *)
(* left the state it started from.                                         *)
(***************************************************************************)
\* st after the swap calls among the first k events of the trace
RECURSIVE Replayed(_, _, _)
Replayed(st, trace, k) ==
  IF k = 0 THEN st
  ELSE IF ~IsSwap(trace[k]) THEN Replayed(st, trace, k - 1)
  ELSE IF trace[k].sex = "m" THEN SwappedM(Replayed(st, trace, k - 1), trace[k].args).st
  ELSE SwappedF(Replayed(st, trace, k - 1), trace[k].args).st

C30_OnlySwapsModify ==
  (step.op \in StepOps /\ step.outcome = "ok") =>
    /\ \A k \in 1 .. Len(step.trace) :
         IsEval(step.trace[k]) =>
           step.trace[k].on = Replayed(Sched(step.before), step.trace, k)
    /\ Sched(param) = Replayed(Sched(step.before), step.trace, Len(step.trace))
    /\ (\A k \in 1 .. Len(step.trace) : ~IsSwap(step.trace[k])) =>
         Sched(param) = Sched(step.before)
    /\ param.imm_m = step.before.imm_m
    /\ param.imm_f = step.before.imm_f

\* an annealing step has rejected its female candidate, which had a
\* negative delta, by the acceptance draw: no female swap was called, the
\* generator has advanced, and the step left the state the female
\* evaluator saw
C30_Witness ==
  /\ step.op = "anneal"
  /\ step.outcome = "ok"
  /\ \A k \in 1 .. Len(step.trace) : ~(IsSwap(step.trace[k]) /\ step.trace[k].sex = "f")
  /\ \E k \in 1 .. Len(step.trace) :
       /\ IsAcceptanceDraw(step.trace[k])
       /\ step.trace[k].sex = "f"
       /\ step.trace[k].args = << FALSE >>
  /\ \E k \in 1 .. Len(step.trace) :
       /\ IsEval(step.trace[k])
       /\ step.trace[k].sex = "f"
       /\ step.trace[k].delta < 0
       /\ step.trace[k].on = Sched(param)
  /\ param.rnd_state # step.before.rnd_state

(***************************************************************************)
(* C31  Diagonal invariant.  Once initialize has returned,                 *)
(* curr_contacts[i][i] is number_of_days for every person i, in every      *)
(* state (no swap touches it); hence, with two days or more, the           *)
(* iteration of an evaluator loss loop that visits the slot of the person  *)
(* itself, for any legal argument tuple between two groups, neither        *)
(* counts a loss nor throws.                                               *)
(***************************************************************************)
\* the iteration of the loss loop over group g of day `day` that visits
\* slot s, for the person in that slot
SelfIteration(sched, cnt, guarded, day, g, s) ==
  EvalLossLoop([delta |-> 0, thrown |-> FALSE], curr_contacts, sched[day][g],
               sched[day][g][s], s, s + 1, guarded)

SelfPairIgnored(sched, cnt, guarded, a) ==
  a[2] # a[4] =>
    /\ SelfIteration(sched, cnt, guarded, a[1], a[2], a[3]) = [delta |-> 0, thrown |-> FALSE]
    /\ SelfIteration(sched, cnt, guarded, a[1], a[4], a[5]) = [delta |-> 0, thrown |-> FALSE]

C31_DiagonalInvariant ==
  pc \notin {"constructed", "aborted"} =>
    /\ \A i \in Persons : curr_contacts[i][i] = number_of_days
    /\ number_of_days >= 2 =>
         /\ \A a \in LegalMaleArgs :
              SelfPairIgnored(m_day_group_person, number_of_males_per_group, TRUE, a)
         /\ \A a \in LegalFemaleArgs :
              SelfPairIgnored(f_day_group_person, number_of_females_per_group, FALSE, a)

\* a swap_m between two groups has been executed on a schedule of three
\* days, the diagonal entries of the two persons it moved are still 3, and
\* the evaluator, asked about the same slots again, passes over both
\* self-pairs
C31_Witness ==
  /\ pc = "initialized"
  /\ number_of_days = 3
  /\ last.op = "swap_m"
  /\ Len(log) = 1
  /\ Newest.g1 # Newest.g2
  /\ curr_contacts # snap.cc
  /\ curr_contacts[m_day_group_person[Newest.day][Newest.g1][Newest.s1]]
                   [m_day_group_person[Newest.day][Newest.g1][Newest.s1]] = 3
  /\ curr_contacts[m_day_group_person[Newest.day][Newest.g2][Newest.s2]]
                   [m_day_group_person[Newest.day][Newest.g2][Newest.s2]] = 3
  /\ Args(Newest) \in LegalMaleArgs
  /\ SelfPairIgnored(m_day_group_person, number_of_males_per_group, TRUE, Args(Newest))

(***************************************************************************)
(* C32  Per-block matrix maintenance.  At every quiescent point, after     *)
(* any sequence of swaps, every entry curr_contacts[i][j] of two distinct  *)
(* persons of the same sex is the number of days on which i and j share a  *)
(* group in the current schedule, and every entry of a male and a female   *)
(* holds the value initialize computed.                                    *)
(***************************************************************************)
SameSex(i, j) == (i < TotalMales) = (j < TotalMales)

SwapCalled == last'.op \in {"swap_m", "swap_f", "undo"}

\* the arguments of that call
SwapCall == IF last'.op = "undo" THEN log[Len(log)] ELSE log'[Len(log')]

\* the persons of group g in the schedule sched of one sex on day `day`
GroupOf(sched, day, g) == { sched[day][g][s] : s \in DOMAIN sched[day][g] }

\* what the call adds to curr_contacts[i][j]: x in {p1, p2} loses the
\* others of the group it leaves and gains the others of the group it joins
EntryChange(sched, e, i, j) ==
  LET p1 == sched[e.day][e.g1][e.s1]
      p2 == sched[e.day][e.g2][e.s2]
      others1 == GroupOf(sched, e.day, e.g1) \ {p1}
      others2 == GroupOf(sched, e.day, e.g2) \ {p2}
      Of(x, y) == IF x = p1 /\ y \in others1 THEN -1
                  ELSE IF x = p1 /\ y \in others2 THEN 1
                  ELSE IF x = p2 /\ y \in others2 THEN -1
                  ELSE IF x = p2 /\ y \in others1 THEN 1
                  ELSE 0
  IN  Of(i, j) + Of(j, i)

\* the frame of the call e on the schedule sched of its sex
SwapFrame(sched, schedAfter, other, otherAfter, e) ==
  /\ pc' # "thrown"
  /\ schedAfter = Exchanged(sched, e.day, e.g1, e.s1, e.g2, e.s2)
  /\ schedAfter[e.day][e.g1][e.s1] # sched[e.day][e.g1][e.s1]
  /\ otherAfter = other
  /\ \A i, j \in Persons :
       curr_contacts'[i][j] = curr_contacts[i][j] + EntryChange(sched, e, i, j)
  /\ curr_contacts'[sched[e.day][e.g1][e.s1]][sched[e.day][e.g2][e.s2]]
       = curr_contacts[sched[e.day][e.g1][e.s1]][sched[e.day][e.g2][e.s2]]
  /\ curr_contacts'[sched[e.day][e.g2][e.s2]][sched[e.day][e.g1][e.s1]]
       = curr_contacts[sched[e.day][e.g2][e.s2]][sched[e.day][e.g1][e.s1]]
  /\ UNCHANGED << config_vars, imm_vars, runs, param >>

CrossGroupSwapFrame ==
  (SwapCalled /\ SwapCall.g1 # SwapCall.g2) =>
    IF SwapCall.sex = "m"
    THEN SwapFrame(m_day_group_person, m_day_group_person',
                   f_day_group_person, f_day_group_person', SwapCall)
    ELSE SwapFrame(f_day_group_person, f_day_group_person',
                   m_day_group_person, m_day_group_person', SwapCall)

RECURSIVE DrawsOf(_, _)
DrawsOf(trace, k) ==
  IF k > Len(trace) THEN << >>
  ELSE IF IsDraw(trace[k]) THEN << << trace[k].sex, trace[k].use >> >> \o DrawsOf(trace, k + 1)
  ELSE DrawsOf(trace, k + 1)

\* the delta the evaluator returned for the candidate of sex in the last step
DeltaOf(sex) ==
  step.trace[CHOOSE k \in Events(IsEval) : step.trace[k].sex = sex].delta

CandidateDraws(sex) ==
  << << sex, "group1" >>, << sex, "group2" >>, << sex, "slot1" >>, << sex, "slot2" >> >>

AcceptanceDraws(sex) == IF DeltaOf(sex) < 0 THEN << << sex, "u" >> >> ELSE << >>

NegativeDeltas ==
  (IF DeltaOf("m") < 0 THEN 1 ELSE 0) + (IF DeltaOf("f") < 0 THEN 1 ELSE 0)

\* the generator state after k calls of xorshift128p from the state words
RECURSIVE Advanced(_, _)
Advanced(words, k) == IF k = 0 THEN words ELSE Advanced(xorshift128p(words).state, k - 1)

C34_ConsumptionPerStep ==
  (step.op = "anneal" /\ step.outcome = "ok") =>
    /\ \A sex \in {"m", "f"} : \E k \in Events(IsEval) : step.trace[k].sex = sex
    /\ DrawsOf(step.trace, 1) =
         << << "both", "day" >> >> \o CandidateDraws("m") \o AcceptanceDraws("m")
           \o CandidateDraws("f") \o AcceptanceDraws("f")
    /\ Len(DrawsOf(step.trace, 1)) = 9 + NegativeDeltas
    /\ Len(DrawsOf(step.trace, 1)) \in 9 .. 11
    /\ param.rnd_state = Advanced(step.before.rnd_state, 9 + NegativeDeltas)
    /\ param.rnd_state # Advanced(step.before.rnd_state, 8 + NegativeDeltas)

\* an annealing step has completed in which both candidates had a
\* negative delta: eleven words were drawn, an acceptance word after each
\* evaluation
C34_Witness ==
  /\ step.op = "anneal" /\ step.outcome = "ok"
  /\ DeltaOf("m") < 0 /\ DeltaOf("f") < 0
  /\ Len(DrawsOf(step.trace, 1)) = 11
  /\ DrawsOf(step.trace, 1)[6] = << "m", "u" >>
  /\ DrawsOf(step.trace, 1)[11] = << "f", "u" >>
  /\ param.rnd_state = Advanced(step.before.rnd_state, 11)

(***************************************************************************)
(* C35  Default immovables after initialize.  When initialize has          *)
(* returned and no immovable setter has been called yet, both immovable    *)
(* vectors of the state have one element per group and every element is    *)
(* 0, so that a step run at that point reads them within bounds.           *)
(***************************************************************************)
DefaultImmovables(immvec) ==
  /\ DOMAIN immvec = Range(number_of_groups)
  /\ \A g \in Range(number_of_groups) : immvec[g] = 0

C35_DefaultImmovablesAfterInitialize ==
  (pc = "initialized" /\ last.op = "initialize") =>
    /\ DefaultImmovables(m_number_of_immovable_people_per_group)
    /\ DefaultImmovables(f_number_of_immovable_people_per_group)

====
